---------------------------- MODULE Spec2Model ----------------------------
(***************************************************************************)
(* State-machine model of drivers/gpu/drm/vc4/vc4_hdmi.c: the HDMI encoder *)
(* enable/disable sequence, the infoframe packet engine and the audio      *)
(* callbacks.                                                              *)
(*                                                                         *)
(* Two caller contexts exist: the DRM modeset path ("drm": get_modes,      *)
(* encoder enable, encoder disable) and the ALSA path ("alsa": startup,    *)
(* prepare, trigger, shutdown).  Every handler is a chain of steps, one    *)
(* per statement that touches shared state; a read-modify-write of the     *)
(* packet-RAM config register is two steps (HDMI_READ, then HDMI_WRITE).   *)
(*   Spec      runs the handlers one at a time.                            *)
(*   FairSpec  is Spec with the running handler always making progress.    *)
(*   SpecConc  an enable that has reached its HDMI branch runs on while    *)
(*             one audio prepare or trigger is called, the two contexts    *)
(*             interleaving step by step: the file takes no lock anywhere. *)
(*   SpecChmapCtl  streams are opened, prepared and closed while the       *)
(*             receiver's ELD changes, and the channel-map control reads.  *)
(*   SpecCec   the CEC interrupt handler and its thread.                   *)
(* The other specifications apply single functions to bounded inputs.      *)
(***************************************************************************)
EXTENDS Integers, Sequences, FiniteSets, TLC

VARIABLES
    variant,            \* vc4_hdmi->variant: "bcm2835" or "bcm2711"
    hdmi_monitor,       \* vc4_encoder->hdmi_monitor
    limited_rgb_range,  \* vc4_encoder->limited_rgb_range
    encoder_crtc,       \* encoder->crtc != NULL
    audio,              \* vc4_hdmi->audio
    pm_usage,           \* runtime-PM usage count of the device
    pixel_en,           \* enable count of vc4_hdmi->pixel_clock
    hsm_en,             \* enable count of vc4_hdmi->hsm_clock
    unbalanced,         \* clocks that were disabled while already disabled
    regs,               \* HDMI/HD register block
    ram,                \* packet RAM, one entry per 32-bit word
    pc,                 \* per context: position in the running handler
    stack,              \* per context: return positions of nested calls
    loc,                \* per context: locals of the running handler
    trace,              \* per context: steps of the running/last handler
    call,               \* per context: handler, outcome, state at entry
    warned,             \* the WARN_ONCE of vc4_hdmi_write_infoframe has fired
    cec                 \* CEC: fields shared by the interrupt handlers, the
                        \* interrupt state and the threaded handler's position

clkvars == <<pm_usage, pixel_en, hsm_en, unbalanced>>
hwvars  == <<regs, ram>>
drvvars == <<variant, hdmi_monitor, limited_rgb_range, encoder_crtc, audio,
             warned, cec>>
ctlvars == <<pc, stack, loc>>
ghost   == <<trace, call>>
vars    == <<variant, hdmi_monitor, limited_rgb_range, encoder_crtc,
             audio, pm_usage, pixel_en, hsm_en, unbalanced, regs, ram,
             pc, stack, loc, trace, call, warned, cec>>

-----------------------------------------------------------------------------
(* Bounds *)

\* re-reads of a status flag before wait_for() runs out of time
MaxPoll == 1

-----------------------------------------------------------------------------
(* Program constants *)

Threads == {"drm", "alsa"}

Variants == {"bcm2835", "bcm2711"}

\* infoframe type codes; packet_id = type - 0x80
HDMI_INFOFRAME_TYPE_AVI   == 130
HDMI_INFOFRAME_TYPE_SPD   == 131
HDMI_INFOFRAME_TYPE_AUDIO == 132

\* bit number of VC4_HDMI_RAM_PACKET_ENABLE in HDMI_RAM_PACKET_CONFIG
VC4_HDMI_RAM_PACKET_ENABLE == 16

\* bytes between two slots of the packet RAM
VC4_HDMI_PACKET_STRIDE == 36

\* number of packet slots the RAM model covers
NumSlots == 6

RamWords == 0 .. (NumSlots * (VC4_HDMI_PACKET_STRIDE \div 4) - 1)

\* the two substreams that may open the DAI; 0 is NULL
Substreams == {1, 2}

\* adjusted modes: default RGB quantization range and sync polarities
\* (a CEA mode with negative syncs, a full-range mode with mixed syncs)
Modes == {[limited |-> TRUE, hsync_pos |-> FALSE, vsync_pos |-> FALSE],
          [limited |-> FALSE, hsync_pos |-> FALSE, vsync_pos |-> TRUE]}

PacketId(type) == type - 128

BIT(n) == {n}

\* variant->phy_disable exists on bcm2835 only
HasPhyDisable(v) == v = "bcm2835"

-----------------------------------------------------------------------------
(* Small helpers *)

Goto(t, l) == pc' = [pc EXCEPT ![t] = l]

Log(t, e) == trace' = [trace EXCEPT ![t] = Append(@, e)]

NoLoc == [frame |-> 0, tmp |-> {}, tries |-> 0, ret |-> "ok", k |-> 0]

NoCall == [op |-> "none", result |-> "none", arg |-> 0, entry |-> <<0, 0, 0>>]

\* no CEC message: cec_rx_msg.len = 0
NoMsg == [len |-> 0, data |-> "none"]

\* the CEC state after bind: fields zeroed by devm_kzalloc, no interrupt
\* raised, the interrupt thread asleep, nothing reported
NoCec ==
    [cec_irq_was_rx |-> FALSE, cec_tx_ok |-> FALSE, cec_rx_msg |-> NoMsg,
     pending |-> FALSE, rx_int |-> FALSE, tx_good |-> FALSE, rx_data |-> NoMsg,
     runthread |-> FALSE, thr |-> "asleep",
     raised |-> 0, events |-> <<>>, reports |-> <<>>]

\* encoder->crtc->state->adjusted_mode, as read by the running enable
mode == call["drm"].arg

\* a handler starts at position l, to write `frame` (if any) and to return
\* from nested calls to `stk`: remember what it is and the counts it found
Begin(t, op, arg, l, stk, frame) ==
    /\ pc[t] = "idle"
    /\ pc' = [pc EXCEPT ![t] = l]
    /\ stack' = [stack EXCEPT ![t] = stk]
    /\ loc' = [loc EXCEPT ![t] = [NoLoc EXCEPT !.frame = frame]]
    /\ trace' = [trace EXCEPT ![t] = <<>>]
    /\ call' = [call EXCEPT ![t] = [op |-> op, result |-> "running",
                                    arg |-> arg,
                                    entry |-> <<pm_usage, pixel_en, hsm_en>>]]

\* the handler returns
Return(t, result) ==
    /\ pc' = [pc EXCEPT ![t] = "done"]
    /\ stack' = [stack EXCEPT ![t] = <<>>]
    /\ call' = [call EXCEPT ![t].result = result]

\* a handler without waits runs in one step and returns
Atomic(t, op, arg, result, steps) ==
    /\ pc[t] = "idle"
    /\ pc' = [pc EXCEPT ![t] = "done"]
    /\ call' = [call EXCEPT ![t] = [op |-> op, result |-> result, arg |-> arg,
                                    entry |-> <<0, 0, 0>>]]
    /\ trace' = [trace EXCEPT ![t] = steps]
    /\ UNCHANGED <<stack, loc>>

\* the caller has the result: the handler's locals and its record go away
HandlerExit(t) ==
    /\ pc[t] = "done"
    /\ pc' = [pc EXCEPT ![t] = "idle"]
    /\ loc' = [loc EXCEPT ![t] = NoLoc]
    /\ trace' = [trace EXCEPT ![t] = <<>>]
    /\ call' = [call EXCEPT ![t] = NoCall]
    /\ unbalanced' = IF t = "drm" THEN {} ELSE unbalanced
    /\ UNCHANGED <<drvvars, pm_usage, pixel_en, hsm_en, hwvars, stack>>

\* clk_disable_unprepare(): the count of an already disabled clock stays 0
ClkDisable(n) == IF n > 0 THEN n - 1 ELSE 0

\* a nested call returns to the position on top of the stack
PopTo(t) ==
    /\ pc' = [pc EXCEPT ![t] = Head(stack[t])]
    /\ stack' = [stack EXCEPT ![t] = Tail(@)]

\* wait_for(COND, MS): the flag is re-read until it holds or the time is up;
\* the hardware decides what each read returns
WaitFor(t, seen, timeout) ==
    \E flag \in BOOLEAN :
        IF flag
        THEN /\ loc' = [loc EXCEPT ![t].ret = "ok", ![t].tries = 0]
             /\ Log(t, seen)
        ELSE /\ loc[t].tries = MaxPoll
             /\ loc' = [loc EXCEPT ![t].ret = "timeout", ![t].tries = 0]
             /\ Log(t, timeout)

\* one more turn of the wait_for loop: the flag did not hold, time is left
WaitAgain(t) ==
    /\ loc[t].tries < MaxPoll
    /\ loc' = [loc EXCEPT ![t].tries = @ + 1]
    /\ UNCHANGED <<pc, stack, call, trace>>

-----------------------------------------------------------------------------
(* vc4_hdmi_connector_get_modes *)

ConnectorGetModes ==
    /\ pc["drm"] = "idle"
    /\ \E h \in BOOLEAN : hdmi_monitor' = h
    /\ UNCHANGED <<warned, cec, variant, limited_rgb_range, encoder_crtc, audio,
                   clkvars, hwvars, ctlvars, ghost>>

-----------------------------------------------------------------------------
(* vc4_hdmi_encoder_enable *)

\* the modeset path calls enable on a disabled encoder, with the new mode
EncoderEnableBegin ==
    /\ ~encoder_crtc
    /\ \E m \in Modes : Begin("drm", "enable", m, "en_pm", <<>>, 0)
    /\ encoder_crtc' = TRUE
    /\ UNCHANGED <<warned, cec, variant, hdmi_monitor, limited_rgb_range, audio,
                   clkvars, hwvars>>

\* pm_runtime_get_sync(): the usage count is raised whether or not the
\* resume succeeds
EnablePm ==
    /\ pc["drm"] = "en_pm"
    /\ pm_usage' = pm_usage + 1
    /\ \E ok \in BOOLEAN :
        IF ok
        THEN Goto("drm", "en_pixrate") /\ Log("drm", "pm_get")
             /\ UNCHANGED <<stack, call>>
        ELSE Return("drm", "err_pm") /\ Log("drm", "err_pm")
    /\ UNCHANGED <<drvvars, pixel_en, hsm_en, unbalanced, hwvars, loc>>

\* clk_set_rate(pixel_clock, pixel_rate)
EnablePixelRate ==
    /\ pc["drm"] = "en_pixrate"
    /\ \E ok \in BOOLEAN :
        IF ok
        THEN Goto("drm", "en_pixen") /\ Log("drm", "pixel_set_rate")
             /\ UNCHANGED <<stack, call>>
        ELSE Return("drm", "err_pixel_rate") /\ Log("drm", "err_pixel_rate")
    /\ UNCHANGED <<drvvars, clkvars, hwvars, loc>>

\* clk_prepare_enable(pixel_clock)
EnablePixelClock ==
    /\ pc["drm"] = "en_pixen"
    /\ \E ok \in BOOLEAN :
        IF ok
        THEN /\ pixel_en' = pixel_en + 1
             /\ Goto("drm", "en_hsmrate") /\ Log("drm", "pixel_enable")
             /\ UNCHANGED <<stack, call>>
        ELSE /\ pixel_en' = pixel_en
             /\ Return("drm", "err_pixel_enable")
             /\ Log("drm", "err_pixel_enable")
    /\ UNCHANGED <<drvvars, pm_usage, hsm_en, unbalanced, hwvars, loc>>

\* clk_set_rate(hsm_clock, hsm_rate)
EnableHsmRate ==
    /\ pc["drm"] = "en_hsmrate"
    /\ \E ok \in BOOLEAN :
        IF ok
        THEN Goto("drm", "en_hsmen") /\ Log("drm", "hsm_set_rate")
             /\ UNCHANGED <<stack, call>>
        ELSE Return("drm", "err_hsm_rate") /\ Log("drm", "err_hsm_rate")
    /\ UNCHANGED <<drvvars, clkvars, hwvars, loc>>

\* clk_prepare_enable(hsm_clock); on failure the pixel clock is disabled
EnableHsmClock ==
    /\ pc["drm"] = "en_hsmen"
    /\ \E ok \in BOOLEAN :
        IF ok
        THEN /\ hsm_en' = hsm_en + 1
             /\ pixel_en' = pixel_en
             /\ Goto("drm", "en_reset") /\ Log("drm", "hsm_enable")
             /\ UNCHANGED <<stack, call>>
        ELSE /\ hsm_en' = hsm_en
             /\ pixel_en' = ClkDisable(pixel_en)
             /\ Return("drm", "err_hsm_enable")
             /\ Log("drm", "err_hsm_enable")
    /\ UNCHANGED <<drvvars, pm_usage, unbalanced, hwvars, loc>>

\* faulty variant of EnableReset: the PHY is never initialised
EnableReset_SkipPhy ==
    /\ pc["drm"] = "en_reset"
    /\ Goto("drm", "en_vid0") /\ Log("drm", "reset")
    /\ UNCHANGED <<drvvars, clkvars, hwvars, stack, loc, call>>

\* variant->reset()
EnableReset ==
    /\ pc["drm"] = "en_reset"
    /\ Goto("drm", "en_phy") /\ Log("drm", "reset")
    /\ UNCHANGED <<drvvars, clkvars, hwvars, stack, loc, call>>

\* variant->phy_init()
EnablePhyInit ==
    /\ pc["drm"] = "en_phy"
    /\ regs' = [regs EXCEPT !.PHY = "on"]
    /\ Goto("drm", "en_vid0") /\ Log("drm", "phy_init")
    /\ UNCHANGED <<drvvars, clkvars, ram, stack, loc, call>>

\* HDMI_VID_CTL = 0; HDMI_SCHEDULER_CONTROL |= MANUAL_FORMAT | IGNORE_VSYNC_PREDICTS
EnableSchedulerFormat ==
    /\ pc["drm"] = "en_vid0"
    /\ regs' = [regs EXCEPT
                  !.VID_CTL = {},
                  !.SCHEDULER_CONTROL =
                      @ \cup {"MANUAL_FORMAT", "IGNORE_VSYNC_PREDICTS"}]
    /\ Goto("drm", "en_timings")
    /\ trace' = [trace EXCEPT !["drm"] = @ \o <<"vid_ctl_clear", "sched_format">>]
    /\ UNCHANGED <<drvvars, clkvars, ram, stack, loc, call>>

\* variant->set_timings(): the last write is HDMI_VID_CTL = sync polarities
EnableSetTimings ==
    /\ pc["drm"] = "en_timings"
    /\ regs' = [regs EXCEPT
                  !.VID_CTL = (IF mode.vsync_pos THEN {} ELSE {"VSYNC_LOW"})
                              \cup (IF mode.hsync_pos THEN {} ELSE {"HSYNC_LOW"})]
    /\ Goto("drm", "en_csc") /\ Log("drm", "set_timings")
    /\ UNCHANGED <<drvvars, clkvars, ram, stack, loc, call>>


\* coefficient registers CSC_12_11 .. CSC_34_33 written by csc_setup, or
\* <<>> when it leaves them alone
CscCoefficients(v, enable) ==
    IF v = "bcm2835"
    THEN IF enable THEN <<0, 16778976, 115343360, 16777216, 1760, 16777216>>
                   ELSE <<>>
    ELSE IF enable THEN <<7040, 67108864, 461373440, 67108864, 0, 67115904>>
                   ELSE <<8192, 0, 536870912, 0, 0, 8192>>

\* faulty variant of CscCtl: without the conversion the control register is
\* cleared
CscCtl_DropOrder(v, enable) ==
    IF enable
    THEN IF v = "bcm2835"
         THEN {"ORDER_BGR", "ENABLE", "RGB2YCC", "MODE_CUSTOM"}
         ELSE {"VC5_CUSTOM_MATRIX_RGB_TO_YCBCR"}
    ELSE {}

\* the value csc_setup writes to HDMI_CSC_CTL
CscCtl(v, enable) ==
    IF v = "bcm2835"
    THEN {"ORDER_BGR"} \cup
         (IF enable THEN {"ENABLE", "RGB2YCC", "MODE_CUSTOM"} ELSE {})
    ELSE {"VC5_CUSTOM_MATRIX_RGB_TO_YCBCR"}

\* vc4_hdmi_csc_setup / vc5_hdmi_csc_setup
CscSetup(r, v, enable) ==
    [r EXCEPT !.CSC_CTL = CscCtl(v, enable),
              !.CSC = IF CscCoefficients(v, enable) = <<>>
                      THEN @ ELSE CscCoefficients(v, enable)]

\* faulty variant of EnableCsc: the receiver type is not looked at
EnableCsc_ModeOnly ==
    /\ pc["drm"] = "en_csc"
    /\ LET lim == mode.limited IN
        /\ regs' = CscSetup(regs, variant, lim)
        /\ limited_rgb_range' = lim
        /\ Log("drm", IF lim THEN "csc_setup_true" ELSE "csc_setup_false")
    /\ Goto("drm", "en_viden")
    /\ UNCHANGED <<warned, cec, variant, hdmi_monitor, encoder_crtc, audio,
                   clkvars, ram, stack, loc, call>>

\* the limited-range decision and the csc_setup call
EnableCsc ==
    /\ pc["drm"] = "en_csc"
    /\ LET lim == hdmi_monitor /\ mode.limited IN
        /\ regs' = CscSetup(regs, variant, lim)
        /\ limited_rgb_range' = lim
        /\ Log("drm", IF lim THEN "csc_setup_true" ELSE "csc_setup_false")
    /\ Goto("drm", "en_viden")
    /\ UNCHANGED <<warned, cec, variant, hdmi_monitor, encoder_crtc, audio,
                   clkvars, ram, stack, loc, call>>

\* HDMI_FIFO_CTL = MASTER_SLAVE_N; HDMI_VID_CTL |= ENABLE | UNDERFLOW_ENABLE |
\* FRAME_COUNTER_RESET
EnableVideo ==
    /\ pc["drm"] = "en_viden"
    /\ regs' = [regs EXCEPT
                  !.FIFO_CTL = {"MASTER_SLAVE_N"},
                  !.VID_CTL = @ \cup {"ENABLE", "UNDERFLOW_ENABLE",
                                      "FRAME_COUNTER_RESET"}]
    /\ Goto("drm", IF hdmi_monitor THEN "en_mode_hdmi" ELSE "en_dvi_read")
    /\ trace' = [trace EXCEPT !["drm"] = @ \o <<"fifo_master", "vid_enable">>]
    /\ UNCHANGED <<drvvars, clkvars, ram, stack, loc, call>>

\* HDMI receiver: HDMI_SCHEDULER_CONTROL |= MODE_HDMI
EnableModeHdmi ==
    /\ pc["drm"] = "en_mode_hdmi"
    /\ regs' = [regs EXCEPT !.SCHEDULER_CONTROL = @ \cup {"MODE_HDMI"}]
    /\ Goto("drm", "en_wait_active") /\ Log("drm", "mode_hdmi")
    /\ UNCHANGED <<drvvars, clkvars, ram, stack, loc, call>>

\* DVI receiver: HDMI_READ(HDMI_RAM_PACKET_CONFIG)
EnableDviRead ==
    /\ pc["drm"] = "en_dvi_read"
    /\ loc' = [loc EXCEPT !["drm"].tmp = regs.RAM_PACKET_CONFIG]
    /\ Goto("drm", "en_dvi_write")
    /\ UNCHANGED <<drvvars, clkvars, hwvars, stack, ghost>>

\* DVI receiver: HDMI_RAM_PACKET_CONFIG = value read & ~ENABLE;
\* HDMI_SCHEDULER_CONTROL &= ~MODE_HDMI
EnableModeDvi ==
    /\ pc["drm"] = "en_dvi_write"
    /\ regs' = [regs EXCEPT
                  !.RAM_PACKET_CONFIG =
                      loc["drm"].tmp \ BIT(VC4_HDMI_RAM_PACKET_ENABLE),
                  !.SCHEDULER_CONTROL = @ \ {"MODE_HDMI"}]
    /\ Goto("drm", "en_wait_active")
    /\ trace' = [trace EXCEPT !["drm"] = @ \o <<"ram_packet_off", "mode_dvi">>]
    /\ UNCHANGED <<drvvars, clkvars, ram, stack, loc, call>>

\* faulty variant of EnableWaitActive: a timeout makes enable return
EnableWaitActive_Abort ==
    /\ pc["drm"] = "en_wait_active"
    /\ \/ /\ WaitFor("drm", "active_seen", "active_timeout")
          /\ IF loc'["drm"].ret = "ok"
             THEN Goto("drm", "en_hdmi") /\ UNCHANGED <<stack, call>>
             ELSE Return("drm", "err_timeout")
       \/ WaitAgain("drm")
    /\ UNCHANGED <<drvvars, clkvars, hwvars>>

\* wait_for(HDMI_ACTIVE) or wait_for(!HDMI_ACTIVE), then WARN_ONCE(ret)
EnableWaitActive ==
    /\ pc["drm"] = "en_wait_active"
    /\ \/ /\ WaitFor("drm", "active_seen", "active_timeout")
          /\ Goto("drm", "en_hdmi")
          /\ UNCHANGED <<stack, call>>
       \/ WaitAgain("drm")
    /\ UNCHANGED <<drvvars, clkvars, hwvars>>

\* faulty variant of EnableHdmiEntry: the HDMI branch is taken for every
\* receiver
EnableHdmiEntry_Always ==
    /\ pc["drm"] = "en_hdmi"
    /\ regs' = [regs EXCEPT
                  !.SCHEDULER_CONTROL = @ \cup {"VERT_ALWAYS_KEEPOUT"},
                  !.RAM_PACKET_CONFIG = BIT(VC4_HDMI_RAM_PACKET_ENABLE)]
    /\ Goto("drm", "si_avi") /\ Log("drm", "ram_packet_on")
    /\ UNCHANGED <<drvvars, clkvars, ram, stack, loc, call>>

\* if (hdmi_monitor): HDMI_SCHEDULER_CONTROL |= VERT_ALWAYS_KEEPOUT;
\* HDMI_RAM_PACKET_CONFIG = ENABLE; otherwise enable is done
EnableHdmiEntry ==
    /\ pc["drm"] = "en_hdmi"
    /\ IF hdmi_monitor
       THEN /\ regs' = [regs EXCEPT
                          !.SCHEDULER_CONTROL = @ \cup {"VERT_ALWAYS_KEEPOUT"},
                          !.RAM_PACKET_CONFIG = BIT(VC4_HDMI_RAM_PACKET_ENABLE)]
            /\ Goto("drm", "si_avi") /\ Log("drm", "ram_packet_on")
            /\ UNCHANGED <<stack, call>>
       ELSE /\ Return("drm", "ok")
            /\ UNCHANGED <<regs, trace>>
    /\ UNCHANGED <<drvvars, clkvars, ram, loc>>

\* faulty variant of SetInfoframes: the audio infoframe is left to the next
\* trigger(start), only AVI and SPD are written
SetInfoframes_NoAudio ==
    /\ pc["drm"] \in {"si_avi", "si_spd", "si_audio"}
    /\ IF pc["drm"] = "si_audio"
       THEN Goto("drm", "en_recenter") /\ UNCHANGED <<stack, loc, trace>>
       ELSE /\ Goto("drm", "wi_warn")
            /\ stack' = [stack EXCEPT !["drm"] =
                           <<IF pc["drm"] = "si_avi" THEN "si_spd"
                                                     ELSE "si_audio">> \o @]
            /\ loc' = [loc EXCEPT !["drm"].frame =
                         IF pc["drm"] = "si_avi" THEN HDMI_INFOFRAME_TYPE_AVI
                                                 ELSE HDMI_INFOFRAME_TYPE_SPD]
            /\ Log("drm", IF pc["drm"] = "si_avi" THEN "avi_infoframe"
                                                  ELSE "spd_infoframe")
    /\ UNCHANGED <<drvvars, clkvars, hwvars, call>>

\* vc4_hdmi_set_infoframes: AVI, SPD, and audio when audio.streaming
SetInfoframes ==
    /\ pc["drm"] \in {"si_avi", "si_spd", "si_audio"}
    /\ LET type == CASE pc["drm"] = "si_avi" -> HDMI_INFOFRAME_TYPE_AVI
                     [] pc["drm"] = "si_spd" -> HDMI_INFOFRAME_TYPE_SPD
                     [] OTHER -> HDMI_INFOFRAME_TYPE_AUDIO
           after == CASE pc["drm"] = "si_avi" -> "si_spd"
                      [] pc["drm"] = "si_spd" -> "si_audio"
                      [] OTHER -> "en_recenter"
           event == CASE pc["drm"] = "si_avi" -> "avi_infoframe"
                      [] pc["drm"] = "si_spd" -> "spd_infoframe"
                      [] OTHER -> "audio_infoframe"
       IN  IF pc["drm"] = "si_audio" /\ ~audio.streaming
           THEN Goto("drm", "en_recenter") /\ UNCHANGED <<stack, loc, trace>>
           ELSE /\ Goto("drm", "wi_warn")
                /\ stack' = [stack EXCEPT !["drm"] = <<after>> \o @]
                /\ loc' = [loc EXCEPT !["drm"].frame = type]
                /\ Log("drm", event)
    /\ UNCHANGED <<drvvars, clkvars, hwvars, call>>

\* faulty variant of EnableRecenter: one pulse only
EnableRecenter_OnePulse ==
    /\ pc["drm"] = "en_recenter"
    /\ LET k == loc["drm"].k
           drift == regs.FIFO_CTL \ {"RECENTER_DONE"}
       IN  /\ regs' = [regs EXCEPT !.FIFO_CTL =
                         IF k % 2 = 0 THEN drift \ {"RECENTER"}
                                      ELSE drift \cup {"RECENTER"}]
           /\ Log("drm", IF k % 2 = 0 THEN "recenter_clear" ELSE "recenter_set")
           /\ IF k < 1
              THEN /\ loc' = [loc EXCEPT !["drm"].k = k + 1]
                   /\ UNCHANGED pc
              ELSE /\ loc' = [loc EXCEPT !["drm"].k = 0]
                   /\ Goto("drm", "en_wait_recenter")
    /\ UNCHANGED <<drvvars, clkvars, ram, stack, call>>

\* drift = HDMI_READ(HDMI_FIFO_CTL) & VALID_WRITE_MASK, then four writes of
\* HDMI_FIFO_CTL: RECENTER clear, set, (usleep) clear, set
EnableRecenter ==
    /\ pc["drm"] = "en_recenter"
    /\ LET k == loc["drm"].k
           drift == regs.FIFO_CTL \ {"RECENTER_DONE"}
       IN  /\ regs' = [regs EXCEPT !.FIFO_CTL =
                         IF k % 2 = 0 THEN drift \ {"RECENTER"}
                                      ELSE drift \cup {"RECENTER"}]
           /\ Log("drm", IF k % 2 = 0 THEN "recenter_clear" ELSE "recenter_set")
           /\ IF k < 3
              THEN /\ loc' = [loc EXCEPT !["drm"].k = k + 1]
                   /\ UNCHANGED pc
              ELSE /\ loc' = [loc EXCEPT !["drm"].k = 0]
                   /\ Goto("drm", "en_wait_recenter")
    /\ UNCHANGED <<drvvars, clkvars, ram, stack, call>>

\* wait_for(RECENTER_DONE, 1), then WARN_ONCE(ret); enable is done
EnableWaitRecenter ==
    /\ pc["drm"] = "en_wait_recenter"
    /\ \/ /\ WaitFor("drm", "recenter_seen", "recenter_timeout")
          /\ Return("drm", "ok")
       \/ WaitAgain("drm")
    /\ UNCHANGED <<drvvars, clkvars, hwvars>>

-----------------------------------------------------------------------------
(* vc4_hdmi_stop_packet and vc4_hdmi_write_infoframe, run by context t for *)
(* the frame type in loc[t].frame                                          *)

\* serialized length: 4 header bytes and the payload of the frame type
PackLen(type) ==
    CASE type = HDMI_INFOFRAME_TYPE_AVI -> 4 + 13
      [] type = HDMI_INFOFRAME_TYPE_SPD -> 4 + 25
      [] type = HDMI_INFOFRAME_TYPE_AUDIO -> 4 + 10

\* words the copy loop writes: two per started group of 7 bytes, from the
\* first word of the slot
WrittenWords(type) ==
    LET first == PacketId(type) * (VC4_HDMI_PACKET_STRIDE \div 4)
        groups == (PackLen(type) + 6) \div 7
    IN  first .. (first + 2 * groups - 1)

\* faulty variant of WriteInfoframePack: the call of vc4_hdmi_stop_packet is
\* left out, the buffer is copied with the slot as it stands
WriteInfoframePack_NoStop(t) ==
    /\ pc[t] = "wi_warn"
    /\ LET off == VC4_HDMI_RAM_PACKET_ENABLE \notin regs.RAM_PACKET_CONFIG
       IN  /\ warned' = (warned \/ off)
           /\ trace' = [trace EXCEPT ![t] =
                          @ \o (IF off /\ ~warned
                                THEN <<"WARN_packet_ram_off">> ELSE <<>>)
                            \o <<"pack">>]
    /\ Goto(t, "wi_stopped")
    /\ UNCHANGED <<cec, variant, hdmi_monitor, limited_rgb_range, encoder_crtc,
                   audio, clkvars, hwvars, stack, loc, call>>

\* faulty variant of WriteInfoframePack: WARN instead of WARN_ONCE, every
\* call with the bank off is reported
WriteInfoframePack_WarnAlways(t) ==
    /\ pc[t] = "wi_warn"
    /\ LET off == VC4_HDMI_RAM_PACKET_ENABLE \notin regs.RAM_PACKET_CONFIG
       IN  /\ warned' = (warned \/ off)
           /\ trace' = [trace EXCEPT ![t] =
                          @ \o (IF off THEN <<"WARN_packet_ram_off">> ELSE <<>>)
                            \o <<"pack">>]
    /\ Goto(t, "sp_read")
    /\ stack' = [stack EXCEPT ![t] = <<"wi_stopped">> \o @]
    /\ UNCHANGED <<cec, variant, hdmi_monitor, limited_rgb_range, encoder_crtc,
                   audio, clkvars, hwvars, loc, call>>

\* WARN_ONCE(packet RAM off); len = hdmi_infoframe_pack(); then the call of
\* vc4_hdmi_stop_packet
WriteInfoframePack(t) ==
    /\ pc[t] = "wi_warn"
    /\ LET off == VC4_HDMI_RAM_PACKET_ENABLE \notin regs.RAM_PACKET_CONFIG
       IN  /\ warned' = (warned \/ off)
           /\ trace' = [trace EXCEPT ![t] =
                          @ \o (IF off /\ ~warned
                                THEN <<"WARN_packet_ram_off">> ELSE <<>>)
                            \o <<"pack">>]
    /\ IF PackLen(loc[t].frame) < 0
       THEN PopTo(t)
       ELSE /\ Goto(t, "sp_read")
            /\ stack' = [stack EXCEPT ![t] = <<"wi_stopped">> \o @]
    /\ UNCHANGED <<cec, variant, hdmi_monitor, limited_rgb_range, encoder_crtc,
                   audio, clkvars, hwvars, loc, call>>

\* stop_packet: HDMI_READ(HDMI_RAM_PACKET_CONFIG)
StopPacketRead(t) ==
    /\ pc[t] = "sp_read"
    /\ loc' = [loc EXCEPT ![t].tmp = regs.RAM_PACKET_CONFIG]
    /\ Goto(t, "sp_write")
    /\ UNCHANGED <<drvvars, clkvars, hwvars, stack, ghost>>

\* stop_packet: HDMI_WRITE(HDMI_RAM_PACKET_CONFIG, value read & ~BIT(packet_id))
StopPacketWrite(t) ==
    /\ pc[t] = "sp_write"
    /\ regs' = [regs EXCEPT !.RAM_PACKET_CONFIG =
                  loc[t].tmp \ BIT(PacketId(loc[t].frame))]
    /\ Goto(t, "sp_poll") /\ Log(t, "slot_disable")
    /\ UNCHANGED <<drvvars, clkvars, ram, stack, loc, call>>

\* faulty variant of StopPacketWait: when the time is up the poll starts
\* over instead of returning -ETIMEDOUT
StopPacketWait_Retry(t) ==
    /\ pc[t] = "sp_poll"
    /\ \/ /\ loc' = [loc EXCEPT ![t].ret = "ok", ![t].tries = 0]
          /\ Log(t, "slot_idle")
          /\ PopTo(t)
          /\ UNCHANGED call
       \/ /\ loc' = [loc EXCEPT ![t].tries = IF @ < MaxPoll THEN @ + 1 ELSE 0]
          /\ UNCHANGED <<pc, stack, call, trace>>
    /\ UNCHANGED <<drvvars, clkvars, hwvars>>

\* stop_packet: return wait_for(!(RAM_PACKET_STATUS & BIT(packet_id)), 100)
StopPacketWait(t) ==
    /\ pc[t] = "sp_poll"
    /\ \/ /\ WaitFor(t, "slot_idle", "slot_idle_timeout")
          /\ PopTo(t)
          /\ UNCHANGED call
       \/ WaitAgain(t)
    /\ UNCHANGED <<drvvars, clkvars, hwvars>>

\* faulty variant of WriteInfoframeRam: the result of vc4_hdmi_stop_packet is
\* not looked at, the buffer is copied in any case
WriteInfoframeRam_IgnoreRet(t) ==
    /\ pc[t] = "wi_stopped"
    /\ ram' = [w \in RamWords |->
                 IF w \in WrittenWords(loc[t].frame)
                 THEN loc[t].frame ELSE ram[w]]
    /\ Goto(t, "wi_read") /\ Log(t, "ram_write")
    /\ UNCHANGED <<drvvars, clkvars, regs, stack, loc, call>>

\* write_infoframe after stop_packet: give up if the slot did not go idle,
\* else copy the buffer into the packet RAM
WriteInfoframeRam(t) ==
    /\ pc[t] = "wi_stopped"
    /\ IF loc[t].ret # "ok"
       THEN PopTo(t) /\ UNCHANGED <<ram, trace>>
       ELSE /\ ram' = [w \in RamWords |->
                         IF w \in WrittenWords(loc[t].frame)
                         THEN loc[t].frame ELSE ram[w]]
            /\ Goto(t, "wi_read") /\ Log(t, "ram_write")
            /\ UNCHANGED stack
    /\ UNCHANGED <<drvvars, clkvars, regs, loc, call>>

\* write_infoframe: HDMI_READ(HDMI_RAM_PACKET_CONFIG)
WriteInfoframeRead(t) ==
    /\ pc[t] = "wi_read"
    /\ loc' = [loc EXCEPT ![t].tmp = regs.RAM_PACKET_CONFIG]
    /\ Goto(t, "wi_write")
    /\ UNCHANGED <<drvvars, clkvars, hwvars, stack, ghost>>

\* write_infoframe: HDMI_WRITE(HDMI_RAM_PACKET_CONFIG, value read | BIT(packet_id))
WriteInfoframeEnable(t) ==
    /\ pc[t] = "wi_write"
    /\ regs' = [regs EXCEPT !.RAM_PACKET_CONFIG =
                  loc[t].tmp \cup BIT(PacketId(loc[t].frame))]
    /\ Goto(t, "wi_poll") /\ Log(t, "slot_enable")
    /\ UNCHANGED <<drvvars, clkvars, ram, stack, loc, call>>

\* faulty variant of WriteInfoframeWait: a slot that does not become active
\* ends the whole handler with -ETIMEDOUT
WriteInfoframeWait_Fatal(t) ==
    /\ pc[t] = "wi_poll"
    /\ \/ /\ loc' = [loc EXCEPT ![t].ret = "ok", ![t].tries = 0]
          /\ Log(t, "slot_active")
          /\ PopTo(t)
          /\ UNCHANGED call
       \/ /\ loc[t].tries = MaxPoll
          /\ loc' = [loc EXCEPT ![t].ret = "timeout", ![t].tries = 0]
          /\ Log(t, "slot_active_timeout")
          /\ Return(t, "ETIMEDOUT")
       \/ WaitAgain(t)
    /\ UNCHANGED <<drvvars, clkvars, hwvars>>

\* write_infoframe: wait_for(RAM_PACKET_STATUS & BIT(packet_id), 100); a
\* timeout is logged and the function returns
WriteInfoframeWait(t) ==
    /\ pc[t] = "wi_poll"
    /\ \/ /\ WaitFor(t, "slot_active", "slot_active_timeout")
          /\ PopTo(t)
          /\ UNCHANGED call
       \/ WaitAgain(t)
    /\ UNCHANGED <<drvvars, clkvars, hwvars>>

-----------------------------------------------------------------------------
(* vc4_hdmi_encoder_disable *)

\* the modeset path calls disable on an encoder it enabled before
EncoderDisableBegin ==
    /\ encoder_crtc
    /\ Begin("drm", "disable", 0, "dis_ram", <<>>, 0)
    /\ UNCHANGED <<drvvars, clkvars, hwvars>>

\* faulty variant of DisableVideo: the PHY-disable hook is never called
DisableVideo_NoPhyDisable ==
    /\ pc["drm"] = "dis_ram"
    /\ regs' = [regs EXCEPT !.RAM_PACKET_CONFIG = {},
                            !.VID_CTL = @ \ {"ENABLE"}]
    /\ trace' = [trace EXCEPT !["drm"] = @ \o <<"ram_packet_clear", "vid_disable">>]
    /\ Goto("drm", "dis_clk")
    /\ UNCHANGED <<drvvars, clkvars, ram, stack, loc, call>>

\* HDMI_RAM_PACKET_CONFIG = 0; variant->phy_disable() if there is one;
\* HDMI_VID_CTL &= ~ENABLE
DisableVideo ==
    /\ pc["drm"] = "dis_ram"
    /\ regs' = [regs EXCEPT
                  !.RAM_PACKET_CONFIG = {},
                  !.PHY = IF HasPhyDisable(variant) THEN "off" ELSE @,
                  !.VID_CTL = @ \ {"ENABLE"}]
    /\ trace' = [trace EXCEPT !["drm"] =
                   @ \o <<"ram_packet_clear">>
                     \o (IF HasPhyDisable(variant) THEN <<"phy_disable">> ELSE <<>>)
                     \o <<"vid_disable">>]
    /\ Goto("drm", "dis_clk")
    /\ UNCHANGED <<drvvars, clkvars, ram, stack, loc, call>>

\* faulty variant of DisableClocks: the pixel clock is left alone
DisableClocks_KeepPixel ==
    /\ pc["drm"] = "dis_clk"
    /\ hsm_en' = ClkDisable(hsm_en)
    /\ pixel_en' = pixel_en
    /\ unbalanced' = unbalanced \cup (IF hsm_en = 0 THEN {"hsm"} ELSE {})
    /\ trace' = [trace EXCEPT !["drm"] = @ \o <<"hsm_disable", "pixel_disable">>]
    /\ Goto("drm", "dis_pm")
    /\ UNCHANGED <<drvvars, pm_usage, hwvars, stack, loc, call>>

\* clk_disable_unprepare(hsm_clock); clk_disable_unprepare(pixel_clock)
DisableClocks ==
    /\ pc["drm"] = "dis_clk"
    /\ hsm_en' = ClkDisable(hsm_en)
    /\ pixel_en' = ClkDisable(pixel_en)
    /\ unbalanced' = unbalanced \cup (IF hsm_en = 0 THEN {"hsm"} ELSE {})
                                \cup (IF pixel_en = 0 THEN {"pixel"} ELSE {})
    /\ trace' = [trace EXCEPT !["drm"] = @ \o <<"hsm_disable", "pixel_disable">>]
    /\ Goto("drm", "dis_pm")
    /\ UNCHANGED <<drvvars, pm_usage, hwvars, stack, loc, call>>

\* pm_runtime_put(): the usage count drops; a failure is only logged
DisablePm ==
    /\ pc["drm"] = "dis_pm"
    /\ pm_usage' = pm_usage - 1
    /\ \E ok \in BOOLEAN :
        trace' = [trace EXCEPT !["drm"] =
                    @ \o <<"pm_put">> \o (IF ok THEN <<>> ELSE <<"err_pm_put">>)]
    /\ encoder_crtc' = FALSE
    /\ Return("drm", "ok")
    /\ UNCHANGED <<warned, cec, variant, hdmi_monitor, limited_rgb_range, audio,
                   pixel_en, hsm_en, unbalanced, hwvars, loc>>

-----------------------------------------------------------------------------
(* Audio callbacks *)

\* faulty variant of AudioStartup: the owner check is left out, a second
\* substream takes the device over
AudioStartup_NoOwnerCheck ==
    /\ \E s \in Substreams, eld_ok \in BOOLEAN :
        LET nodev == ~encoder_crtc
                     \/ VC4_HDMI_RAM_PACKET_ENABLE \notin regs.RAM_PACKET_CONFIG
        IN  /\ audio' = [audio EXCEPT !.substream = s]
            /\ Atomic("alsa", "startup", s,
                      IF nodev THEN "ENODEV"
                      ELSE IF eld_ok THEN "ok" ELSE "err_eld",
                      <<"owner_set">>)
    /\ UNCHANGED <<warned, cec, variant, hdmi_monitor, limited_rgb_range,
                   encoder_crtc, clkvars, hwvars>>

\* vc4_hdmi_audio_startup(substream): -EINVAL for a second substream; else
\* the substream becomes the owner before the -ENODEV check and before
\* snd_pcm_hw_constraint_eld, which may fail
AudioStartup ==
    /\ \E s \in Substreams, eld_ok \in BOOLEAN :
        LET busy == audio.substream # 0 /\ audio.substream # s
            nodev == ~encoder_crtc
                     \/ VC4_HDMI_RAM_PACKET_ENABLE \notin regs.RAM_PACKET_CONFIG
        IN  /\ audio' = IF busy THEN audio
                        ELSE [audio EXCEPT !.substream = s]
            /\ Atomic("alsa", "startup", s,
                      IF busy THEN "EINVAL" ELSE IF nodev THEN "ENODEV"
                      ELSE IF eld_ok THEN "ok" ELSE "err_eld",
                      IF busy THEN <<>> ELSE <<"owner_set">>)
    /\ UNCHANGED <<warned, cec, variant, hdmi_monitor, limited_rgb_range, encoder_crtc,
                   clkvars, hwvars>>

\* vc4_hdmi_audio_prepare(substream): -EINVAL for a stranger; else the MAI
\* path is reset and reprogrammed
AudioPrepare ==
    /\ \E s \in Substreams :
        LET owner == s = audio.substream
        IN  Atomic("alsa", "prepare", s, IF owner THEN "ok" ELSE "EINVAL",
                   IF owner THEN <<"mai_reset">> ELSE <<>>)
    /\ UNCHANGED <<drvvars, clkvars, hwvars>>

\* vc4_hdmi_audio_trigger(START): first the audio infoframe
AudioTriggerStartBegin ==
    /\ Begin("alsa", "trigger_start", 0, "wi_warn", <<"tr_start">>,
             HDMI_INFOFRAME_TYPE_AUDIO)
    /\ UNCHANGED <<drvvars, clkvars, hwvars>>


\* trigger(START) after the infoframe: audio.streaming = true;
\* variant->phy_rng_enable(); HDMI_MAI_CTL = CHNUM | WHOLSMP | CHALIGN | ENABLE
AudioTriggerStart ==
    /\ pc["alsa"] = "tr_start"
    /\ audio' = [audio EXCEPT !.streaming = TRUE]
    /\ trace' = [trace EXCEPT !["alsa"] =
                   @ \o <<"streaming_set", "phy_rng_enable", "mai_enable">>]
    /\ Return("alsa", "ok")
    /\ UNCHANGED <<warned, cec, variant, hdmi_monitor, limited_rgb_range, encoder_crtc,
                   clkvars, hwvars, loc>>

\* faulty variant of AudioTriggerStop: the MAI path and the PHY RNG are
\* stopped but audio.streaming is left as it is
AudioTriggerStop_KeepStreaming ==
    /\ Atomic("alsa", "trigger_stop", 0, "ok",
              <<"mai_disable", "phy_rng_disable">>)
    /\ UNCHANGED <<drvvars, clkvars, hwvars>>

\* vc4_hdmi_audio_trigger(STOP): HDMI_MAI_CTL = DLATE | ERRORE | ERRORF;
\* variant->phy_rng_disable(); audio.streaming = false
AudioTriggerStop ==
    /\ audio' = [audio EXCEPT !.streaming = FALSE]
    /\ Atomic("alsa", "trigger_stop", 0, "ok",
              <<"mai_disable", "phy_rng_disable", "streaming_clear">>)
    /\ UNCHANGED <<warned, cec, variant, hdmi_monitor, limited_rgb_range, encoder_crtc,
                   clkvars, hwvars>>

\* vc4_hdmi_audio_shutdown(substream): nothing for a stranger; for the owner
\* vc4_hdmi_audio_reset starts: audio.streaming = false, then stop_packet
AudioShutdownBegin ==
    /\ \E s \in Substreams :
        IF s # audio.substream
        THEN /\ Atomic("alsa", "shutdown", s, "ignored", <<>>)
             /\ UNCHANGED audio
        ELSE /\ Begin("alsa", "shutdown", s, "sp_read", <<"ar_mai">>,
                      HDMI_INFOFRAME_TYPE_AUDIO)
             /\ audio' = [audio EXCEPT !.streaming = FALSE]
    /\ UNCHANGED <<warned, cec, variant, hdmi_monitor, limited_rgb_range, encoder_crtc,
                   clkvars, hwvars>>

\* faulty variant of AudioResetMai: the owner is left in place
AudioResetMai_KeepOwner ==
    /\ pc["alsa"] = "ar_mai"
    /\ audio' = audio
    /\ trace' = [trace EXCEPT !["alsa"] =
                   @ \o <<"mai_reset", "mai_errorf", "mai_flush", "owner_clear">>]
    /\ Return("alsa", "ok")
    /\ UNCHANGED <<warned, cec, variant, hdmi_monitor, limited_rgb_range, encoder_crtc,
                   clkvars, hwvars, loc>>

\* audio_reset after stop_packet: HDMI_MAI_CTL = RESET, = ERRORF, = FLUSH;
\* then shutdown clears audio.substream
AudioResetMai ==
    /\ pc["alsa"] = "ar_mai"
    /\ audio' = [audio EXCEPT !.substream = 0]
    /\ trace' = [trace EXCEPT !["alsa"] =
                   @ \o <<"mai_reset", "mai_errorf", "mai_flush", "owner_clear">>]
    /\ Return("alsa", "ok")
    /\ UNCHANGED <<warned, cec, variant, hdmi_monitor, limited_rgb_range, encoder_crtc,
                   clkvars, hwvars, loc>>

-----------------------------------------------------------------------------
(* Channel allocation: the speaker configuration sent in the audio        *)
(* infoframe, chosen from the receiver's speaker-allocation byte and the  *)
(* channel count of the stream                                            *)

\* -EINVAL
EINVAL == 22

\* number of entries of hdmi_codec_eld_spk_alloc_bits[]
SpkAllocBits == 7

\* vc4_hdmi->audio.max_channels
MaxChannels == 8

\* hdmi_codec_stereo_chmaps[], without the empty end marker
hdmi_codec_stereo_chmaps ==
    << [channels |-> 2, map |-> <<"FL", "FR">>] >>

\* hdmi_codec_8ch_chmaps[], without the empty end marker: entry ca_id + 1
\* is the map commented CA_ID ca_id; NA marks a position without speaker
hdmi_codec_8ch_chmaps ==
    <<
      [channels |-> 2, map |-> <<"FL", "FR">>],
      [channels |-> 4, map |-> <<"FL", "FR", "LFE", "NA">>],
      [channels |-> 4, map |-> <<"FL", "FR", "NA", "FC">>],
      [channels |-> 4, map |-> <<"FL", "FR", "LFE", "FC">>],
      [channels |-> 6, map |-> <<"FL", "FR", "NA", "NA", "RC", "NA">>],
      [channels |-> 6, map |-> <<"FL", "FR", "LFE", "NA", "RC", "NA">>],
      [channels |-> 6, map |-> <<"FL", "FR", "NA", "FC", "RC", "NA">>],
      [channels |-> 6, map |-> <<"FL", "FR", "LFE", "FC", "RC", "NA">>],
      [channels |-> 6, map |-> <<"FL", "FR", "NA", "NA", "RL", "RR">>],
      [channels |-> 6, map |-> <<"FL", "FR", "LFE", "NA", "RL", "RR">>],
      [channels |-> 6, map |-> <<"FL", "FR", "NA", "FC", "RL", "RR">>],
      [channels |-> 6, map |-> <<"FL", "FR", "LFE", "FC", "RL", "RR">>],
      [channels |-> 8, map |-> <<"FL", "FR", "NA", "NA", "RL", "RR", "RC", "NA">>],
      [channels |-> 8, map |-> <<"FL", "FR", "LFE", "NA", "RL", "RR", "RC", "NA">>],
      [channels |-> 8, map |-> <<"FL", "FR", "NA", "FC", "RL", "RR", "RC", "NA">>],
      [channels |-> 8, map |-> <<"FL", "FR", "LFE", "FC", "RL", "RR", "RC", "NA">>],
      [channels |-> 8, map |-> <<"FL", "FR", "NA", "NA", "RL", "RR", "RLC", "RRC">>],
      [channels |-> 8, map |-> <<"FL", "FR", "LFE", "NA", "RL", "RR", "RLC", "RRC">>],
      [channels |-> 8, map |-> <<"FL", "FR", "NA", "FC", "RL", "RR", "RLC", "RRC">>],
      [channels |-> 8, map |-> <<"FL", "FR", "LFE", "FC", "RL", "RR", "RLC", "RRC">>],
      [channels |-> 8, map |-> <<"FL", "FR", "NA", "NA", "NA", "NA", "FLC", "FRC">>],
      [channels |-> 8, map |-> <<"FL", "FR", "LFE", "NA", "NA", "NA", "FLC", "FRC">>],
      [channels |-> 8, map |-> <<"FL", "FR", "NA", "FC", "NA", "NA", "FLC", "FRC">>],
      [channels |-> 8, map |-> <<"FL", "FR", "LFE", "FC", "NA", "NA", "FLC", "FRC">>],
      [channels |-> 8, map |-> <<"FL", "FR", "NA", "NA", "NA", "NA", "FLC", "FRC">>],
      [channels |-> 8, map |-> <<"FL", "FR", "LFE", "NA", "NA", "NA", "FLC", "FRC">>],
      [channels |-> 8, map |-> <<"FL", "FR", "NA", "FC", "NA", "NA", "FLC", "FRC">>],
      [channels |-> 8, map |-> <<"FL", "FR", "LFE", "FC", "NA", "NA", "FLC", "FRC">>],
      [channels |-> 8, map |-> <<"FL", "FR", "NA", "NA", "NA", "NA", "FLC", "FRC">>],
      [channels |-> 8, map |-> <<"FL", "FR", "LFE", "NA", "NA", "NA", "FLC", "FRC">>],
      [channels |-> 8, map |-> <<"FL", "FR", "NA", "FC", "NA", "NA", "FLC", "FRC">>],
      [channels |-> 8, map |-> <<"FL", "FR", "LFE", "FC", "NA", "NA", "FLC", "FRC">>]
    >>

\* hdmi_codec_channel_alloc[], in its written order; a mask is the set of
\* its speakers
hdmi_codec_channel_alloc ==
    <<
      [ca_id |-> 0, n_ch |-> 2, mask |-> {"FL", "FR"}],
      [ca_id |-> 1, n_ch |-> 4, mask |-> {"FL", "FR", "LFE"}],
      [ca_id |-> 2, n_ch |-> 4, mask |-> {"FL", "FR", "FC"}],
      [ca_id |-> 11, n_ch |-> 6, mask |-> {"FL", "FR", "LFE", "FC", "RL", "RR"}],
      [ca_id |-> 8, n_ch |-> 6, mask |-> {"FL", "FR", "RL", "RR"}],
      [ca_id |-> 9, n_ch |-> 6, mask |-> {"FL", "FR", "LFE", "RL", "RR"}],
      [ca_id |-> 10, n_ch |-> 6, mask |-> {"FL", "FR", "FC", "RL", "RR"}],
      [ca_id |-> 15, n_ch |-> 8, mask |-> {"FL", "FR", "LFE", "FC", "RL", "RR", "RC"}],
      [ca_id |-> 19, n_ch |-> 8, mask |-> {"FL", "FR", "LFE", "FC", "RL", "RR", "RLC", "RRC"}],
      [ca_id |-> 3, n_ch |-> 8, mask |-> {"FL", "FR", "LFE", "FC"}],
      [ca_id |-> 4, n_ch |-> 8, mask |-> {"FL", "FR", "RC"}],
      [ca_id |-> 5, n_ch |-> 8, mask |-> {"FL", "FR", "LFE", "RC"}],
      [ca_id |-> 6, n_ch |-> 8, mask |-> {"FL", "FR", "FC", "RC"}],
      [ca_id |-> 7, n_ch |-> 8, mask |-> {"FL", "FR", "LFE", "FC", "RC"}],
      [ca_id |-> 12, n_ch |-> 8, mask |-> {"FL", "FR", "RC", "RL", "RR"}],
      [ca_id |-> 13, n_ch |-> 8, mask |-> {"FL", "FR", "LFE", "RL", "RR", "RC"}],
      [ca_id |-> 14, n_ch |-> 8, mask |-> {"FL", "FR", "FC", "RL", "RR", "RC"}],
      [ca_id |-> 16, n_ch |-> 8, mask |-> {"FL", "FR", "RL", "RR", "RLC", "RRC"}],
      [ca_id |-> 17, n_ch |-> 8, mask |-> {"FL", "FR", "LFE", "RL", "RR", "RLC", "RRC"}],
      [ca_id |-> 18, n_ch |-> 8, mask |-> {"FL", "FR", "FC", "RL", "RR", "RLC", "RRC"}],
      [ca_id |-> 20, n_ch |-> 8, mask |-> {"FL", "FR", "FLC", "FRC"}],
      [ca_id |-> 21, n_ch |-> 8, mask |-> {"FL", "FR", "LFE", "FLC", "FRC"}],
      [ca_id |-> 22, n_ch |-> 8, mask |-> {"FL", "FR", "FC", "FLC", "FRC"}],
      [ca_id |-> 23, n_ch |-> 8, mask |-> {"FL", "FR", "LFE", "FC", "FLC", "FRC"}],
      [ca_id |-> 24, n_ch |-> 8, mask |-> {"FL", "FR", "RC", "FLC", "FRC"}],
      [ca_id |-> 25, n_ch |-> 8, mask |-> {"FL", "FR", "LFE", "RC", "FLC", "FRC"}],
      [ca_id |-> 26, n_ch |-> 8, mask |-> {"FL", "FR", "RC", "FC", "FLC", "FRC"}],
      [ca_id |-> 27, n_ch |-> 8, mask |-> {"FL", "FR", "LFE", "RC", "FC", "FLC", "FRC"}],
      [ca_id |-> 28, n_ch |-> 8, mask |-> {"FL", "FR", "RL", "RR", "FLC", "FRC"}],
      [ca_id |-> 29, n_ch |-> 8, mask |-> {"FL", "FR", "LFE", "RL", "RR", "FLC", "FRC"}],
      [ca_id |-> 30, n_ch |-> 8, mask |-> {"FL", "FR", "FC", "RL", "RR", "FLC", "FRC"}],
      [ca_id |-> 31, n_ch |-> 8, mask |-> {"FL", "FR", "LFE", "FC", "RL", "RR", "FLC", "FRC"}]
    >>

\* hdmi_codec_eld_spk_alloc_bits[i]
hdmi_codec_eld_spk_alloc_bits(i) ==
    CASE i = 0 -> {"FL", "FR"}
      [] i = 1 -> {"LFE"}
      [] i = 2 -> {"FC"}
      [] i = 3 -> {"RL", "RR"}
      [] i = 4 -> {"RC"}
      [] i = 5 -> {"FLC", "FRC"}
      [] i = 6 -> {"RLC", "RRC"}

\* spk_alloc & (1 << i)
BitSet(x, i) == (x \div (2 ^ i)) % 2 = 1

\* hdmi_codec_spk_mask_from_alloc(spk_alloc)
hdmi_codec_spk_mask_from_alloc(spk_alloc) ==
    UNION {hdmi_codec_eld_spk_alloc_bits(i) :
             i \in {j \in 0 .. (SpkAllocBits - 1) : BitSet(spk_alloc, j)}}

\* faulty variant of hdmi_codec_get_ch_alloc_table_idx: among the entries
\* that fit, the one with the lowest ca_id is taken
hdmi_codec_get_ch_alloc_table_idx_ByCaId(spk_alloc, channels) ==
    LET cap == hdmi_codec_channel_alloc
        spk_mask == hdmi_codec_spk_mask_from_alloc(spk_alloc)
        fit == {i \in DOMAIN cap :
                  cap[i].n_ch = channels /\ cap[i].mask \subseteq spk_mask}
    IN  IF spk_alloc = 0 THEN 0
        ELSE IF fit = {} THEN -EINVAL
        ELSE (CHOOSE i \in fit : \A j \in fit : cap[i].ca_id <= cap[j].ca_id) - 1

\* faulty variant of hdmi_codec_get_ch_alloc_table_idx: no stereo fallback
\* for a receiver that reports no speakers
hdmi_codec_get_ch_alloc_table_idx_NoFallback(spk_alloc, channels) ==
    LET cap == hdmi_codec_channel_alloc
        spk_mask == hdmi_codec_spk_mask_from_alloc(spk_alloc)
        fit == {i \in DOMAIN cap :
                  cap[i].n_ch = channels /\ cap[i].mask \subseteq spk_mask}
    IN  IF fit = {} THEN -EINVAL
        ELSE (CHOOSE i \in fit : \A j \in fit : i <= j) - 1

\* hdmi_codec_get_ch_alloc_table_idx(vc4_hdmi, channels), spk_alloc being
\* drm_eld_get_spk_alloc(connector->eld): the loop over the table, entry by
\* entry; the result is the C index (from 0) or -EINVAL
hdmi_codec_get_ch_alloc_table_idx(spk_alloc, channels) ==
    LET cap == hdmi_codec_channel_alloc
        spk_mask == hdmi_codec_spk_mask_from_alloc(spk_alloc)
        loop[i \in 1 .. (Len(cap) + 1)] ==
            IF i > Len(cap) THEN -EINVAL
            ELSE IF spk_alloc = 0 /\ cap[i].ca_id = 0 THEN i - 1
            ELSE IF cap[i].n_ch # channels THEN loop[i + 1]
            ELSE IF ~(cap[i].mask = (spk_mask \cap cap[i].mask)) THEN loop[i + 1]
            ELSE i - 1
    IN  loop[1]

\* marker for "no entry of the table fits"
HDMI_CODEC_CHMAP_IDX_UNKNOWN == -1

\* the lookup in vc4_hdmi_audio_prepare, for the inputs held in the call
\* record: idx = hdmi_codec_get_ch_alloc_table_idx(vc4_hdmi, audio.channels)
PrepareChAlloc ==
    /\ pc["alsa"] = "ch_alloc"
    /\ loc' = [loc EXCEPT !["alsa"].k =
                  hdmi_codec_get_ch_alloc_table_idx(call["alsa"].arg[1],
                                                    call["alsa"].arg[2])]
    /\ pc' = [pc EXCEPT !["alsa"] = "ch_store"]
    /\ trace' = [trace EXCEPT !["alsa"] = <<"ch_alloc">>]
    /\ UNCHANGED <<drvvars, clkvars, hwvars, stack, call>>

\* faulty variant of PrepareChmapIdx: a failed lookup is returned to the
\* audio caller
PrepareChmapIdx_Fail ==
    /\ pc["alsa"] = "ch_store"
    /\ LET idx == loc["alsa"].k
       IN  IF idx < 0
           THEN /\ Log("alsa", "err_no_mapping")
                /\ Return("alsa", "EINVAL")
                /\ UNCHANGED audio
           ELSE /\ audio' = [audio EXCEPT !.chmap_idx =
                               hdmi_codec_channel_alloc[idx + 1].ca_id]
                /\ Log("alsa", "chmap_idx_set")
                /\ Return("alsa", "ok")
    /\ UNCHANGED <<warned, cec, variant, hdmi_monitor, limited_rgb_range,
                   encoder_crtc, clkvars, hwvars, loc>>

\* the end of vc4_hdmi_audio_prepare: a failed lookup is logged and leaves
\* the marker in audio.chmap_idx, else the entry's ca_id is stored; return 0
PrepareChmapIdx ==
    /\ pc["alsa"] = "ch_store"
    /\ LET idx == loc["alsa"].k
       IN  /\ audio' = [audio EXCEPT !.chmap_idx =
                          IF idx < 0 THEN HDMI_CODEC_CHMAP_IDX_UNKNOWN
                          ELSE hdmi_codec_channel_alloc[idx + 1].ca_id]
           /\ trace' = [trace EXCEPT !["alsa"] =
                          @ \o (IF idx < 0 THEN <<"err_no_mapping">> ELSE <<>>)
                            \o <<"chmap_idx_set">>]
    /\ Return("alsa", "ok")
    /\ UNCHANGED <<warned, cec, variant, hdmi_monitor, limited_rgb_range,
                   encoder_crtc, clkvars, hwvars, loc>>

-----------------------------------------------------------------------------
(* Specifications *)

\* registers after reset, driver state after devm_kzalloc in vc4_hdmi_bind
Init ==
    /\ variant \in Variants
    /\ hdmi_monitor = FALSE
    /\ limited_rgb_range = FALSE
    /\ encoder_crtc = FALSE
    /\ audio = [substream |-> 0, streaming |-> FALSE]
    /\ pm_usage = 0
    /\ pixel_en = 0
    /\ hsm_en = 0
    /\ unbalanced = {}
    /\ regs = [RAM_PACKET_CONFIG |-> {}, VID_CTL |-> {},
               SCHEDULER_CONTROL |-> {}, FIFO_CTL |-> {}, CSC_CTL |-> {},
               CSC |-> <<0, 0, 0, 0, 0, 0>>, PHY |-> "off"]
    /\ ram = [w \in RamWords |-> 0]
    /\ pc = [t \in Threads |-> "idle"]
    /\ stack = [t \in Threads |-> <<>>]
    /\ loc = [t \in Threads |-> NoLoc]
    /\ trace = [t \in Threads |-> <<>>]
    /\ call = [t \in Threads |-> NoCall]
    /\ warned = FALSE
    /\ cec = NoCec

\* the packet engine, run by either context
PacketStep(t) ==
    \/ WriteInfoframePack(t)
    \/ StopPacketRead(t)
    \/ StopPacketWrite(t)
    \/ StopPacketWait(t)
    \/ WriteInfoframeRam(t)
    \/ WriteInfoframeRead(t)
    \/ WriteInfoframeEnable(t)
    \/ WriteInfoframeWait(t)

\* the modeset path
DrmStep ==
    \/ ConnectorGetModes
    \/ EncoderEnableBegin
    \/ EnablePm
    \/ EnablePixelRate
    \/ EnablePixelClock
    \/ EnableHsmRate
    \/ EnableHsmClock
    \/ EnableReset
    \/ EnablePhyInit
    \/ EnableSchedulerFormat
    \/ EnableSetTimings
    \/ EnableCsc
    \/ EnableVideo
    \/ EnableModeHdmi
    \/ EnableDviRead
    \/ EnableModeDvi
    \/ EnableWaitActive
    \/ EnableHdmiEntry
    \/ SetInfoframes
    \/ EnableRecenter
    \/ EnableWaitRecenter
    \/ EncoderDisableBegin
    \/ DisableVideo
    \/ DisableClocks
    \/ DisablePm
    \/ PacketStep("drm")
    \/ HandlerExit("drm")

\* the audio path
AlsaStep ==
    \/ AudioStartup
    \/ AudioPrepare
    \/ AudioTriggerStartBegin
    \/ AudioTriggerStart
    \/ AudioTriggerStop
    \/ AudioShutdownBegin
    \/ AudioResetMai
    \/ PacketStep("alsa")
    \/ HandlerExit("alsa")

\* handlers run one at a time
Next ==
    \/ pc["alsa"] = "idle" /\ DrmStep
    \/ pc["drm"] = "idle" /\ AlsaStep

Spec == Init /\ [][Next]_vars

\* the context that is inside a handler keeps running
FairSpec == Spec /\ WF_vars(Next)

\* the steps of enable up to the HDMI_ACTIVE poll, for an HDMI receiver
EnableHead(lim) ==
    <<"pm_get", "pixel_set_rate", "pixel_enable", "hsm_set_rate", "hsm_enable",
      "reset", "phy_init", "vid_ctl_clear", "sched_format", "set_timings",
      IF lim THEN "csc_setup_true" ELSE "csc_setup_false",
      "fifo_master", "vid_enable">>

\* the first enable after probe, on an HDMI receiver, has passed the
\* HDMI_ACTIVE poll and stands before `if (vc4_encoder->hdmi_monitor)`;
\* no audio callback has run yet
InitConc ==
    /\ variant \in Variants
    /\ hdmi_monitor = TRUE
    /\ encoder_crtc = TRUE
    /\ audio = [substream |-> 0, streaming |-> FALSE]
    /\ pm_usage = 1
    /\ pixel_en = 1
    /\ hsm_en = 1
    /\ unbalanced = {}
    /\ ram = [w \in RamWords |-> 0]
    /\ pc = [drm |-> "en_hdmi", alsa |-> "idle"]
    /\ stack = [t \in Threads |-> <<>>]
    /\ loc = [t \in Threads |-> NoLoc]
    /\ warned = FALSE
    /\ cec = NoCec
    /\ \E m \in Modes :
        /\ limited_rgb_range = m.limited
        /\ call = [drm |-> [op |-> "enable", result |-> "running", arg |-> m,
                            entry |-> <<0, 0, 0>>],
                   alsa |-> NoCall]
        /\ trace = [drm |-> EnableHead(m.limited) \o <<"mode_hdmi", "active_seen">>,
                    alsa |-> <<>>]
        /\ regs = CscSetup(
                     [RAM_PACKET_CONFIG |-> {},
                      VID_CTL |-> (IF m.vsync_pos THEN {} ELSE {"VSYNC_LOW"})
                                  \cup (IF m.hsync_pos THEN {} ELSE {"HSYNC_LOW"})
                                  \cup {"ENABLE", "UNDERFLOW_ENABLE",
                                        "FRAME_COUNTER_RESET"},
                      SCHEDULER_CONTROL |-> {"MANUAL_FORMAT",
                                             "IGNORE_VSYNC_PREDICTS", "MODE_HDMI"},
                      FIFO_CTL |-> {"MASTER_SLAVE_N"}, CSC_CTL |-> {},
                      CSC |-> <<0, 0, 0, 0, 0, 0>>, PHY |-> "on"],
                     variant, m.limited)

\* the rest of that enable
EnableTail ==
    \/ EnableHdmiEntry
    \/ SetInfoframes
    \/ EnableRecenter
    \/ EnableWaitRecenter
    \/ PacketStep("drm")

\* one audio callback, called while that enable runs
AudioCall ==
    \/ AudioPrepare
    \/ AudioTriggerStartBegin
    \/ AudioTriggerStart
    \/ AudioTriggerStop
    \/ PacketStep("alsa")

\* the two contexts interleave freely
NextConc == EnableTail \/ AudioCall

SpecConc == InitConc /\ [][NextConc]_vars

\* vc4_hdmi_audio_prepare stands before the channel-allocation lookup, for
\* any speaker-allocation byte of the receiver's ELD (7 bits are used) and
\* any channel count of the stream
InitAlloc ==
    /\ variant \in Variants
    /\ hdmi_monitor = TRUE
    /\ limited_rgb_range = FALSE
    /\ encoder_crtc = TRUE
    /\ \E s \in Substreams :
        audio = [substream |-> s, streaming |-> FALSE, chmap_idx |-> 0]
    /\ pm_usage = 1
    /\ pixel_en = 1
    /\ hsm_en = 1
    /\ unbalanced = {}
    /\ regs = [RAM_PACKET_CONFIG |-> BIT(VC4_HDMI_RAM_PACKET_ENABLE),
               VID_CTL |-> {}, SCHEDULER_CONTROL |-> {}, FIFO_CTL |-> {},
               CSC_CTL |-> {}, CSC |-> <<0, 0, 0, 0, 0, 0>>, PHY |-> "on"]
    /\ ram = [w \in RamWords |-> 0]
    /\ pc = [drm |-> "idle", alsa |-> "ch_alloc"]
    /\ stack = [t \in Threads |-> <<>>]
    /\ loc = [t \in Threads |-> NoLoc]
    /\ trace = [t \in Threads |-> <<>>]
    /\ warned = FALSE
    /\ cec = NoCec
    /\ \E spk_alloc \in 0 .. (2 ^ SpkAllocBits - 1), channels \in 0 .. MaxChannels :
        call = [drm |-> NoCall,
                alsa |-> [op |-> "prepare", result |-> "running",
                          arg |-> <<spk_alloc, channels>>,
                          entry |-> <<0, 0, 0>>]]

\* the rest of that prepare, and the trigger(start) calls that follow it
NextAlloc ==
    \/ PrepareChAlloc
    \/ PrepareChmapIdx
    \/ AudioTriggerStartBegin
    \/ AudioTriggerStart
    \/ PacketStep("alsa")
    \/ HandlerExit("alsa")

SpecAlloc == InitAlloc /\ [][NextAlloc]_vars

-----------------------------------------------------------------------------
(* Functions of the receiver's ELD, of the mode and of the stream *)

\* a bound device with a receiver attached: context t stands at position l
\* of handler op, called with arg; the other context is idle
StandingAt(t, l, op, arg) ==
    /\ hdmi_monitor = TRUE
    /\ limited_rgb_range = FALSE
    /\ encoder_crtc = TRUE
    /\ pm_usage = 1
    /\ pixel_en = 1
    /\ hsm_en = 1
    /\ unbalanced = {}
    /\ ram = [w \in RamWords |-> 0]
    /\ pc = [u \in Threads |-> IF u = t THEN l ELSE "idle"]
    /\ stack = [u \in Threads |-> <<>>]
    /\ loc = [u \in Threads |-> NoLoc]
    /\ trace = [u \in Threads |-> <<>>]
    /\ warned = FALSE
    /\ cec = NoCec
    /\ call = [u \in Threads |->
                 IF u = t THEN [op |-> op, result |-> "running", arg |-> arg,
                                entry |-> <<0, 0, 0>>]
                 ELSE NoCall]

\* the registers after an enable for an HDMI receiver
RegsEnabled ==
    [RAM_PACKET_CONFIG |-> BIT(VC4_HDMI_RAM_PACKET_ENABLE),
     VID_CTL |-> {}, SCHEDULER_CONTROL |-> {}, FIFO_CTL |-> {},
     CSC_CTL |-> {}, CSC |-> <<0, 0, 0, 0, 0, 0>>, PHY |-> "on"]

\* faulty variant of hdmi_codec_eld_chmap: any speaker at all selects the
\* 8-channel maps
hdmi_codec_eld_chmap_AnySpeaker(spk_alloc) ==
    IF hdmi_codec_spk_mask_from_alloc(spk_alloc) # {}
    THEN "hdmi_codec_8ch_chmaps"
    ELSE "hdmi_codec_stereo_chmaps"

\* hdmi_codec_eld_chmap: the table audio.chmap is pointed at;
\* spk_mask & ~(FL | FR) decides
hdmi_codec_eld_chmap(spk_alloc) ==
    IF hdmi_codec_spk_mask_from_alloc(spk_alloc) \ {"FL", "FR"} # {}
    THEN "hdmi_codec_8ch_chmaps"
    ELSE "hdmi_codec_stereo_chmaps"

\* the end of vc4_hdmi_audio_startup: max_channels = 8, the channel maps
\* are selected from the ELD's speaker-allocation byte, return 0
StartupEldChmap ==
    /\ pc["alsa"] = "eld_chmap"
    /\ audio' = [audio EXCEPT
                   !.max_channels = MaxChannels,
                   !.chmap = hdmi_codec_eld_chmap(call["alsa"].arg)]
    /\ Log("alsa", "eld_chmap")
    /\ Return("alsa", "ok")
    /\ UNCHANGED <<warned, cec, variant, hdmi_monitor, limited_rgb_range,
                   encoder_crtc, clkvars, hwvars, loc>>

\* startup has passed its checks, for any speaker-allocation byte of the
\* ELD and any channel count left by an earlier prepare
InitChmap ==
    /\ variant \in Variants
    /\ regs = RegsEnabled
    /\ \E s \in Substreams, channels \in 0 .. MaxChannels :
        audio = [substream |-> s, streaming |-> FALSE, channels |-> channels,
                 max_channels |-> 0, chmap |-> "none"]
    /\ \E spk_alloc \in 0 .. (2 ^ SpkAllocBits - 1) :
        StandingAt("alsa", "eld_chmap", "startup", spk_alloc)

NextChmap == StartupEldChmap

SpecChmap == InitChmap /\ [][NextChmap]_vars

\* variant->max_pixel_clock, in Hz
max_pixel_clock(v) == IF v = "bcm2835" THEN 162000000 ELSE 297000000

\* the int that holds the low 32 bits h * 2^16 + l of a product
ToInt32(h, l) ==
    IF h >= 32768 THEN (h - 65536) * 65536 + l ELSE h * 65536 + l

\* mode->clock * 1000: an int times an int, kept to 32 bits
ClockTimes1000(clock) ==
    LET lo == (clock % 65536) * 1000
        hi == (clock \div 65536) * 1000 + lo \div 65536
    IN  ToInt32(hi % 65536, lo % 65536)

\* vc4_hdmi_encoder_mode_valid: the int is compared with the unsigned
\* max_pixel_clock, so a negative product counts as a huge one
vc4_hdmi_encoder_mode_valid(v, clock) ==
    LET hz == ClockTimes1000(clock)
    IN  IF hz < 0 \/ hz > max_pixel_clock(v)
        THEN "MODE_CLOCK_HIGH" ELSE "MODE_OK"

\* mode clocks in kHz: common modes, the neighbourhood of both limits, and
\* clocks whose rate in Hz does not fit an int
ModeClocks ==
    {25175, 74250, 148500, 594000, 2147483, 2147484, 3000000, 4294967,
     4294968, 4300000, 4456968, 4456969, 2147483647}
    \cup {162000 + d : d \in -10 .. 10}
    \cup {297000 + d : d \in -10 .. 10}

\* the core asks whether the encoder can drive a mode
EncoderModeValid ==
    /\ pc["drm"] = "mode_valid"
    /\ Log("drm", "mode_valid")
    /\ Return("drm",
              vc4_hdmi_encoder_mode_valid(variant, call["drm"].arg.clock))
    /\ UNCHANGED <<drvvars, clkvars, hwvars, loc>>

\* mode_valid is called for a mode of the connector's list or one given by
\* user space, on a device in any enable state
InitModeValid ==
    /\ variant \in Variants
    /\ regs = RegsEnabled
    /\ \E s \in {0} \cup Substreams :
        audio = [substream |-> s, streaming |-> FALSE]
    /\ \E clock \in ModeClocks :
        StandingAt("drm", "mode_valid", "mode_valid", [clock |-> clock])

NextModeValid == EncoderModeValid

SpecModeValid == InitModeValid /\ [][NextModeValid]_vars

VC4_HSM_CLOCK == 163682864

\* faulty variant of calc_hsm_clock: no floor of 108 MHz on the second
\* generation
calc_hsm_clock_NoFloor(v, pixel_rate) ==
    IF v = "bcm2835" THEN VC4_HSM_CLOCK ELSE (pixel_rate \div 100) * 101

\* variant->calc_hsm_clock: vc4_hdmi_calc_hsm_clock returns the fixed rate,
\* vc5_hdmi_calc_hsm_clock max_t(unsigned long, 108000000,
\* (pixel_rate / 100) * 101)
calc_hsm_clock(v, pixel_rate) ==
    IF v = "bcm2835" THEN VC4_HSM_CLOCK
    ELSE LET r == (pixel_rate \div 100) * 101
         IN  IF r > 108000000 THEN r ELSE 108000000

\* mode clocks in kHz around the rates where the second generation's HSM
\* formula changes branch, and up to twice the higher limit
RateClocks ==
    {13500, 25175, 27000, 74250, 106930, 106931, 148500, 162000, 297000,
     324000, 594000}

\* pixel_rate = mode->clock * 1000 * (DBLCLK ? 2 : 1), and
\* clk_set_rate(pixel_clock, pixel_rate)
EnableCalcPixelRate ==
    /\ pc["drm"] = "en_pixrate"
    /\ LET m == call["drm"].arg
           pixel_rate == ClockTimes1000(m.clock) * (IF m.dblclk THEN 2 ELSE 1)
       IN  /\ loc' = [loc EXCEPT !["drm"] =
                        [pixel_rate |-> pixel_rate, hsm_rate |-> 0]]
           /\ \E ok \in BOOLEAN :
                IF ok
                THEN Goto("drm", "en_hsmrate") /\ Log("drm", "pixel_set_rate")
                     /\ UNCHANGED <<stack, call>>
                ELSE Return("drm", "err_pixel_rate")
                     /\ Log("drm", "err_pixel_rate")
    /\ UNCHANGED <<drvvars, clkvars, hwvars>>

\* hsm_rate = variant->calc_hsm_clock(vc4_hdmi, pixel_rate), and
\* clk_set_rate(hsm_clock, hsm_rate); clk_prepare_enable(pixel_clock) in
\* between does not touch the rates
EnableCalcHsmRate ==
    /\ pc["drm"] = "en_hsmrate"
    /\ loc' = [loc EXCEPT !["drm"].hsm_rate =
                 calc_hsm_clock(variant, loc["drm"].pixel_rate)]
    /\ \E ok \in BOOLEAN :
        IF ok
        THEN Return("drm", "ok") /\ Log("drm", "hsm_set_rate")
        ELSE Return("drm", "err_hsm_rate") /\ Log("drm", "err_hsm_rate")
    /\ UNCHANGED <<drvvars, clkvars, hwvars>>

\* enable stands before its clock set-up, for a mode with or without
\* DRM_MODE_FLAG_DBLCLK
InitClocks ==
    /\ variant \in Variants
    /\ regs = RegsEnabled
    /\ audio = [substream |-> 0, streaming |-> FALSE]
    /\ \E clock \in RateClocks, dblclk \in BOOLEAN :
        StandingAt("drm", "en_pixrate", "enable",
                   [clock |-> clock, dblclk |-> dblclk])

NextClocks ==
    \/ EnableCalcPixelRate
    \/ EnableCalcHsmRate

SpecClocks == InitClocks /\ [][NextClocks]_vars

\* variant->get_hsm_clock: clk_get_rate(hsm_clock), which is the rate enable
\* has set, on the first generation; the constant 108000000 on the second
get_hsm_clock(v) == IF v = "bcm2835" THEN VC4_HSM_CLOCK ELSE 108000000

\* VC4_HD_MAI_SMP_N_MASK >> VC4_HD_MAI_SMP_N_SHIFT: a field of 24 bits
VC4_HD_MAI_SMP_N_MAX == 16777215

\* VC4_HD_MAI_SMP_M_MASK >> VC4_HD_MAI_SMP_M_SHIFT: a field of 8 bits
VC4_HD_MAI_SMP_M_MAX == 255

Min(a, b) == IF a < b THEN a ELSE b

\* the loop of rational_best_approximation: n / d is what is left of the
\* ratio, n0 / d0 and n1 / d1 are the last two convergents; when the next
\* convergent leaves the limits, the last one or the largest
\* semi-convergent within them is returned, whichever is closer
RECURSIVE rational_loop(_, _, _, _, _, _, _, _, _)
rational_loop(n, d, n0, d0, n1, d1, max_n, max_d, turns) ==
    IF d = 0
    THEN [n |-> n1, d |-> d1, turns |-> turns]
    ELSE LET a == n \div d
             dn == n % d
             n2 == n0 + a * n1
             d2 == d0 + a * d1
         IN  IF n2 > max_n \/ d2 > max_d
             THEN LET t == Min((max_n - n0) \div n1, (max_d - d0) \div d1)
                  IN  IF 2 * t > a \/ (2 * t = a /\ d0 * d > d1 * dn)
                      THEN [n |-> n0 + t * n1, d |-> d0 + t * d1,
                            turns |-> turns + 1]
                      ELSE [n |-> n1, d |-> d1, turns |-> turns + 1]
             ELSE rational_loop(d, dn, n1, d1, n2, d2, max_n, max_d,
                                turns + 1)

\* rational_best_approximation(given_numerator, given_denominator,
\* max_numerator, max_denominator, &n, &m)
rational_best_approximation(num, den, max_n, max_d) ==
    rational_loop(num, den, 0, 1, 1, 0, max_n, max_d, 0)

\* the sample rates the DAI declares
SampleRates == {32000, 44100, 48000, 88200, 96000, 176400, 192000}

\* sample_rate_to_mai_fmt, for the rates of the DAI
sample_rate_to_mai_fmt(samplerate) ==
    CASE samplerate = 32000 -> "SAMPLE_RATE_32000"
      [] samplerate = 44100 -> "SAMPLE_RATE_44100"
      [] samplerate = 48000 -> "SAMPLE_RATE_48000"
      [] samplerate = 88200 -> "SAMPLE_RATE_88200"
      [] samplerate = 96000 -> "SAMPLE_RATE_96000"
      [] samplerate = 176400 -> "SAMPLE_RATE_176400"
      [] samplerate = 192000 -> "SAMPLE_RATE_192000"
      [] OTHER -> "SAMPLE_RATE_NOT_INDICATED"

\* faulty variant of mai_audio_format: the channel count is not looked at
mai_audio_format_AnyChannels(iec_status0, channels) ==
    IF "NONAUDIO" \in iec_status0
    THEN "VC4_HDMI_MAI_FORMAT_HBR" ELSE "VC4_HDMI_MAI_FORMAT_PCM"

\* the MAI format prepare selects from IEC958 status byte 0 and the channel
\* count
mai_audio_format(iec_status0, channels) ==
    IF "NONAUDIO" \in iec_status0 /\ channels = 8
    THEN "VC4_HDMI_MAI_FORMAT_HBR" ELSE "VC4_HDMI_MAI_FORMAT_PCM"

\* a * b / c of do_div on a 64-bit product, without forming the product:
\* <<q, r>> with a * b = q * c + r and 0 <= r < c
RECURSIVE MulDivMod(_, _, _)
MulDivMod(a, b, c) ==
    IF b = 0 THEN <<0, 0>>
    ELSE LET h == MulDivMod(a, b \div 2, c)
             r == 2 * h[2] + (IF b % 2 = 1 THEN a % c ELSE 0)
             q == 2 * h[1] + (IF b % 2 = 1 THEN a \div c ELSE 0)
         IN  <<q + r \div c, r % c>>

\* faulty variant of n_cts: the quotient n / (128 * samplerate) is taken as
\* 1 / 1000
n_cts_Exact1000(clock, samplerate) ==
    [n |-> (128 * samplerate) \div 1000, cts |-> clock]

\* the N and CTS of vc4_hdmi_set_n_cts: n = 128 * samplerate / 1000,
\* tmp = (u64)(mode->clock * 1000) * n, do_div(tmp, 128 * samplerate)
n_cts(clock, samplerate) ==
    LET n == (128 * samplerate) \div 1000
    IN  [n |-> n,
         cts |-> MulDivMod(ClockTimes1000(clock), n, 128 * samplerate)[1]]

\* faulty variant of PrepareMaiClock: m itself is written to the M field
PrepareMaiClock_WriteM ==
    /\ pc["alsa"] = "pr_mai_clock"
    /\ LET r == rational_best_approximation(
                    get_hsm_clock(variant), audio.samplerate,
                    VC4_HD_MAI_SMP_N_MAX, VC4_HD_MAI_SMP_M_MAX + 1)
       IN  /\ regs' = [regs EXCEPT !.MAI_SMP =
                         [N |-> r.n % (VC4_HD_MAI_SMP_N_MAX + 1),
                          M |-> r.d % (VC4_HD_MAI_SMP_M_MAX + 1)]]
           /\ loc' = [loc EXCEPT !["alsa"] = [n |-> r.n, m |-> r.d,
                                              turns |-> r.turns]]
    /\ Goto("alsa", "pr_mai_fmt") /\ Log("alsa", "mai_smp")
    /\ UNCHANGED <<drvvars, clkvars, ram, stack, call>>

\* vc4_hdmi_audio_set_mai_clock: HDMI_MAI_SMP = N | (M - 1), each cut to its
\* field
PrepareMaiClock ==
    /\ pc["alsa"] = "pr_mai_clock"
    /\ LET r == rational_best_approximation(
                    get_hsm_clock(variant), audio.samplerate,
                    VC4_HD_MAI_SMP_N_MAX, VC4_HD_MAI_SMP_M_MAX + 1)
       IN  /\ regs' = [regs EXCEPT !.MAI_SMP =
                         [N |-> r.n % (VC4_HD_MAI_SMP_N_MAX + 1),
                          M |-> (r.d - 1) % (VC4_HD_MAI_SMP_M_MAX + 1)]]
           /\ loc' = [loc EXCEPT !["alsa"] = [n |-> r.n, m |-> r.d,
                                              turns |-> r.turns]]
    /\ Goto("alsa", "pr_mai_fmt") /\ Log("alsa", "mai_smp")
    /\ UNCHANGED <<drvvars, clkvars, ram, stack, call>>

\* HDMI_MAI_FMT = sample rate | audio format
PrepareMaiFormat ==
    /\ pc["alsa"] = "pr_mai_fmt"
    /\ regs' = [regs EXCEPT !.MAI_FMT =
                  [SAMPLE_RATE |-> sample_rate_to_mai_fmt(audio.samplerate),
                   AUDIO_FORMAT |-> mai_audio_format(audio.iec_status0,
                                                     audio.channels)]]
    /\ Goto("alsa", "pr_n_cts") /\ Log("alsa", "mai_fmt")
    /\ UNCHANGED <<drvvars, clkvars, ram, stack, loc, call>>

\* vc4_hdmi_set_n_cts: HDMI_CRP_CFG = EXTERNAL_CTS_EN | N, then HDMI_CTS_0
\* and HDMI_CTS_1
PrepareNCts ==
    /\ pc["alsa"] = "pr_n_cts"
    /\ LET r == n_cts(call["alsa"].arg.clock, audio.samplerate)
       IN  regs' = [regs EXCEPT !.CRP_CFG = [EXTERNAL_CTS_EN |-> TRUE,
                                             N |-> r.n],
                                !.CTS_0 = r.cts,
                                !.CTS_1 = r.cts]
    /\ Goto("alsa", "ch_alloc") /\ Log("alsa", "n_cts")
    /\ UNCHANGED <<drvvars, clkvars, ram, stack, loc, call>>

\* prepare has stored the stream's channel count and rate and reset the MAI
\* path; the CRTC holds a mode that mode_valid has let through
InitPrepare ==
    /\ variant \in Variants
    /\ regs = RegsEnabled @@ [MAI_SMP |-> [N |-> 0, M |-> 0],
                              MAI_FMT |-> [SAMPLE_RATE |-> "none",
                                           AUDIO_FORMAT |-> "none"],
                              CRP_CFG |-> [EXTERNAL_CTS_EN |-> FALSE, N |-> 0],
                              CTS_0 |-> 0, CTS_1 |-> 0]
    /\ \E s \in Substreams, channels \in 1 .. MaxChannels,
          samplerate \in SampleRates,
          iec_status0 \in SUBSET {"NONAUDIO", "CON_NOT_COPYRIGHT"} :
        audio = [substream |-> s, streaming |-> FALSE, channels |-> channels,
                 samplerate |-> samplerate, iec_status0 |-> iec_status0]
    /\ \E clock \in {c \in RateClocks :
                       vc4_hdmi_encoder_mode_valid(variant, c) = "MODE_OK"} :
        StandingAt("alsa", "pr_mai_clock", "prepare", [clock |-> clock])

NextPrepare ==
    \/ PrepareMaiClock
    \/ PrepareMaiFormat
    \/ PrepareNCts

SpecPrepare == InitPrepare /\ [][NextPrepare]_vars

\* VC4_SET_FIELD(value, FIELD) for a field of `bits` bits: the value is
\* shifted and cut to the mask, so only its low bits are kept (a negative
\* value keeps the low bits of its two's complement)
VC4_SET_FIELD(value, bits) == value % (2 ^ bits)

\* widths of the first generation's timing fields (VC4_HDMI_HORZA_HAP ..
\* VC4_HDMI_VERTB_VBP)
VC4FieldBits(f) ==
    CASE f = "HAP" -> 13 [] f = "HBP" -> 10 [] f = "HSP" -> 10
      [] f = "HFP" -> 10 [] f = "VSP" -> 5 [] f = "VFP" -> 7
      [] f = "VAL" -> 13 [] f = "VSPO" -> 13 [] f = "VBP" -> 9

\* widths of the second generation's timing fields (VC5_HDMI_HORZA_HFP ..
\* VC5_HDMI_VERTB_VSPO); the back porch goes through VC4_HDMI_VERTB_VBP
VC5FieldBits(f) ==
    CASE f = "HFP" -> 13 [] f = "HAP" -> 14 [] f = "HBP" -> 11
      [] f = "HSP" -> 11 [] f = "VSP" -> 5 [] f = "VFP" -> 7
      [] f = "VAL" -> 13 [] f = "VSPO" -> 14 [] f = "VBP" -> VC4FieldBits("VBP")

\* the sync polarity bits written to HDMI_VID_CTL
SyncLow(m) ==
    (IF "PVSYNC" \in m.flags THEN {} ELSE {"VSYNC_LOW"})
    \cup (IF "PHSYNC" \in m.flags THEN {} ELSE {"HSYNC_LOW"})

\* the vertical words of both set_timings functions: verta, vertb and
\* vertb_even, with the variant's field widths
VertWords(v, m) ==
    LET bits(f) == IF v = "bcm2835" THEN VC4FieldBits(f) ELSE VC5FieldBits(f)
        interlaced == IF "INTERLACE" \in m.flags THEN 1 ELSE 0
        verta == [VSP |-> VC4_SET_FIELD(m.crtc_vsync_end - m.crtc_vsync_start,
                                        bits("VSP")),
                  VFP |-> VC4_SET_FIELD(m.crtc_vsync_start - m.crtc_vdisplay,
                                        bits("VFP")),
                  VAL |-> VC4_SET_FIELD(m.crtc_vdisplay, bits("VAL"))]
        vertb == [VSPO |-> VC4_SET_FIELD(0, bits("VSPO")),
                  VBP |-> VC4_SET_FIELD(m.crtc_vtotal - m.crtc_vsync_end,
                                        bits("VBP"))]
        vertb_even == [VSPO |-> VC4_SET_FIELD(0, bits("VSPO")),
                       VBP |-> VC4_SET_FIELD(m.crtc_vtotal - m.crtc_vsync_end
                                               - interlaced,
                                             bits("VBP"))]
    IN  [verta |-> verta, vertb |-> vertb, vertb_even |-> vertb_even]

\* the words both set_timings functions build from mode m: the first
\* generation keeps the front porch in HORZB, the second in HORZA
TimingWords(v, m) ==
    LET pixel_rep == IF "DBLCLK" \in m.flags THEN 2 ELSE 1
        bits(f) == IF v = "bcm2835" THEN VC4FieldBits(f) ELSE VC5FieldBits(f)
        w == VertWords(v, m)
        pos == [VPOS |-> "PVSYNC" \in m.flags, HPOS |-> "PHSYNC" \in m.flags]
        hap == [HAP |-> VC4_SET_FIELD(m.hdisplay * pixel_rep, bits("HAP"))]
        hfp == [HFP |-> VC4_SET_FIELD((m.hsync_start - m.hdisplay) * pixel_rep,
                                      bits("HFP"))]
        hb == [HBP |-> VC4_SET_FIELD((m.htotal - m.hsync_end) * pixel_rep,
                                     bits("HBP")),
               HSP |-> VC4_SET_FIELD((m.hsync_end - m.hsync_start) * pixel_rep,
                                     bits("HSP"))]
    IN  [HORZA |-> IF v = "bcm2835" THEN pos @@ hap ELSE pos @@ hap @@ hfp,
         HORZB |-> IF v = "bcm2835" THEN hb @@ hfp ELSE hb,
         verta |-> w.verta, vertb |-> w.vertb, vertb_even |-> w.vertb_even,
         VID_CTL |-> SyncLow(m)]

\* faulty variant of set_timings: the sync polarity bits are or-ed into what
\* HDMI_VID_CTL holds
set_timings_OrVidCtl(r, v, m) ==
    LET w == TimingWords(v, m)
        t == [r EXCEPT !.HORZA = w.HORZA, !.HORZB = w.HORZB,
                       !.VERTA0 = w.verta, !.VERTA1 = w.verta,
                       !.VERTB0 = w.vertb_even, !.VERTB1 = w.vertb,
                       !.VID_CTL = @ \cup w.VID_CTL]
    IN  IF v = "bcm2835" THEN t
        ELSE [t EXCEPT !.VEC_INTERFACE_XBAR = 3489825, !.CLOCK_STOP = 0]

\* faulty variant of set_timings: the odd field gets the shortened back
\* porch as well
set_timings_BothEven(r, v, m) ==
    LET w == TimingWords(v, m)
        t == [r EXCEPT !.HORZA = w.HORZA, !.HORZB = w.HORZB,
                       !.VERTA0 = w.verta, !.VERTA1 = w.verta,
                       !.VERTB0 = w.vertb_even, !.VERTB1 = w.vertb_even,
                       !.VID_CTL = w.VID_CTL]
    IN  IF v = "bcm2835" THEN t
        ELSE [t EXCEPT !.VEC_INTERFACE_XBAR = 3489825, !.CLOCK_STOP = 0]

\* vc4_hdmi_set_timings / vc5_hdmi_set_timings: the registers r after the
\* call for mode m; every register is written whole, none is read; the
\* second generation also writes HDMI_VEC_INTERFACE_XBAR = 0x354021 and
\* HDMI_CLOCK_STOP = 0
set_timings(r, v, m) ==
    LET w == TimingWords(v, m)
        t == [r EXCEPT !.HORZA = w.HORZA, !.HORZB = w.HORZB,
                       !.VERTA0 = w.verta, !.VERTA1 = w.verta,
                       !.VERTB0 = w.vertb_even, !.VERTB1 = w.vertb,
                       !.VID_CTL = w.VID_CTL]
    IN  IF v = "bcm2835" THEN t
        ELSE [t EXCEPT !.VEC_INTERFACE_XBAR = 3489825, !.CLOCK_STOP = 0]

\* a mode as set_timings reads it
TimingMode(hd, hss, hse, ht, vd, vss, vse, vt, flags) ==
    [hdisplay |-> hd, hsync_start |-> hss, hsync_end |-> hse, htotal |-> ht,
     crtc_vdisplay |-> vd, crtc_vsync_start |-> vss, crtc_vsync_end |-> vse,
     crtc_vtotal |-> vt, flags |-> flags]

\* adjusted modes: 640x480, 720p, 1080p, 1080i, 480i (double-clocked; the
\* crtc_ values of an interlaced mode count the lines of one field), and
\* modes whose back porch is 1 line and 0 lines
TimingModes ==
    {TimingMode(640, 656, 752, 800, 480, 490, 492, 525, {}),
     TimingMode(1280, 1390, 1430, 1650, 720, 725, 730, 750,
                {"PHSYNC", "PVSYNC"}),
     TimingMode(1920, 2008, 2052, 2200, 1080, 1084, 1089, 1125,
                {"PHSYNC", "PVSYNC"}),
     TimingMode(1920, 2008, 2052, 2200, 540, 542, 547, 562,
                {"PHSYNC", "PVSYNC", "INTERLACE"}),
     TimingMode(720, 739, 801, 858, 240, 244, 247, 262,
                {"INTERLACE", "DBLCLK"}),
     TimingMode(1920, 2008, 2052, 2200, 540, 542, 561, 562,
                {"PVSYNC", "INTERLACE"}),
     TimingMode(1024, 1048, 1184, 1344, 768, 771, 776, 777, {"PHSYNC"}),
     TimingMode(1920, 2008, 2052, 2200, 540, 542, 562, 562,
                {"PHSYNC", "INTERLACE"}),
     TimingMode(800, 840, 968, 1056, 600, 601, 628, 628, {"PVSYNC"})}

\* the timing registers out of reset
TimingRegsReset ==
    RegsEnabled @@ [HORZA |-> 0, HORZB |-> 0, VERTA0 |-> 0, VERTA1 |-> 0,
                    VERTB0 |-> 0, VERTB1 |-> 0, VEC_INTERFACE_XBAR |-> 0,
                    CLOCK_STOP |-> 1]

\* what the timing registers may hold before a call: the reset values, or
\* what an earlier enable for some mode has left
PriorTimings(v) ==
    {TimingRegsReset}
    \cup {[set_timings(TimingRegsReset, v, m) EXCEPT
             !.VID_CTL = @ \cup {"ENABLE", "UNDERFLOW_ENABLE",
                                 "FRAME_COUNTER_RESET"}] : m \in TimingModes}

\* the registers set_timings is about
TimingRegs(r) ==
    <<r.HORZA, r.HORZB, r.VERTA0, r.VERTA1, r.VERTB0, r.VERTB1, r.VID_CTL>>

\* variant->set_timings(vc4_hdmi, mode), called for the first time and then
\* again with the same mode; the values of the first call are remembered
ApplySetTimings ==
    /\ pc["drm"] \in {"timings_1", "timings_2"}
    /\ regs' = set_timings(regs, variant, call["drm"].arg)
    /\ loc' = [loc EXCEPT !["drm"] =
                 IF pc["drm"] = "timings_1"
                 THEN [first |-> TimingRegs(regs')] ELSE @]
    /\ Log("drm", "set_timings")
    /\ IF pc["drm"] = "timings_1"
       THEN Goto("drm", "timings_2") /\ UNCHANGED <<stack, call>>
       ELSE Return("drm", "ok")
    /\ UNCHANGED <<drvvars, clkvars, ram>>

\* set_timings is about to run, over any earlier contents of the registers
InitTimings ==
    /\ variant \in Variants
    /\ regs \in PriorTimings(variant)
    /\ audio = [substream |-> 0, streaming |-> FALSE]
    /\ \E m \in TimingModes :
        StandingAt("drm", "timings_1", "set_timings", m)

NextTimings == ApplySetTimings

SpecTimings == InitTimings /\ [][NextTimings]_vars

\* speaker-allocation bytes a receiver's ELD may hold: none, stereo only,
\* and surround layouts up to all seven bits
ChmapAllocs == {0, 1, 3, 9, 11, 15, 47, 79, 127}

\* the table audio.chmap points at
ChmapTable(name) ==
    IF name = "hdmi_codec_8ch_chmaps" THEN hdmi_codec_8ch_chmaps
    ELSE hdmi_codec_stereo_chmaps

\* the first n bytes of a map: positions after the listed ones are 0
MapBytes(m, n) == [i \in 1 .. n |-> IF i <= Len(m) THEN m[i] ELSE "0"]

\* what may lie behind the end of a table
BytesOutside == {"0", "FL", "NA"}

\* vc4_hdmi_audio_startup up to the selection of the channel maps, with the
\* speaker-allocation byte the receiver's ELD holds at this call
StartupToEldChmap ==
    /\ \E s \in Substreams, spk_alloc \in ChmapAllocs, eld_ok \in BOOLEAN :
        LET busy == audio.substream # 0 /\ audio.substream # s
            nodev == ~encoder_crtc
                     \/ VC4_HDMI_RAM_PACKET_ENABLE \notin regs.RAM_PACKET_CONFIG
        IN  IF busy \/ nodev \/ ~eld_ok
            THEN /\ audio' = IF busy THEN audio
                             ELSE [audio EXCEPT !.substream = s]
                 /\ Atomic("alsa", "startup", spk_alloc,
                           IF busy THEN "EINVAL" ELSE IF nodev THEN "ENODEV"
                           ELSE "err_eld",
                           IF busy THEN <<>> ELSE <<"owner_set">>)
            ELSE /\ audio' = [audio EXCEPT !.substream = s]
                 /\ Begin("alsa", "startup", spk_alloc, "eld_chmap", <<>>, 0)
    /\ UNCHANGED <<warned, cec, variant, hdmi_monitor, limited_rgb_range,
                   encoder_crtc, clkvars, hwvars>>

\* vc4_hdmi_audio_prepare up to the channel-allocation lookup, with the
\* speaker-allocation byte the receiver's ELD holds at this call and the
\* channel count of the stream; -EINVAL for a stranger
PrepareToChAlloc ==
    /\ \E s \in Substreams, spk_alloc \in ChmapAllocs,
          channels \in 2 .. MaxChannels :
        IF s # audio.substream
        THEN Atomic("alsa", "prepare", <<spk_alloc, channels>>, "EINVAL", <<>>)
        ELSE Begin("alsa", "prepare", <<spk_alloc, channels>>, "ch_alloc",
                   <<>>, 0)
    /\ UNCHANGED <<drvvars, clkvars, hwvars>>

\* vc4_chmap_ctl_get: -EINVAL without a table; else
\* map = audio.chmap[audio.chmap_idx].map and max_channels values are
\* returned, 0 for the unknown marker, else map[i]; the call record's arg
\* holds the values returned. An index behind the table reads what lies
\* there.
ChmapCtlGet ==
    /\ LET table == ChmapTable(audio.chmap)
           idx == audio.chmap_idx
           n == audio.max_channels
       IN  IF audio.chmap = "none"
           THEN Atomic("alsa", "chmap_ctl_get", <<>>, "EINVAL", <<>>)
           ELSE IF idx = HDMI_CODEC_CHMAP_IDX_UNKNOWN
           THEN Atomic("alsa", "chmap_ctl_get", MapBytes(<<>>, n), "ok",
                       <<"map_unknown">>)
           ELSE IF idx + 1 \in DOMAIN table
           THEN Atomic("alsa", "chmap_ctl_get", MapBytes(table[idx + 1].map, n),
                       "ok", <<"map_read">>)
           ELSE IF idx = Len(table)
           THEN Atomic("alsa", "chmap_ctl_get", MapBytes(<<>>, n), "ok",
                       <<"map_read_end_marker">>)
           ELSE \E b \in BytesOutside :
                    Atomic("alsa", "chmap_ctl_get", [i \in 1 .. n |-> b], "ok",
                           <<"map_read_outside">>)
    /\ UNCHANGED <<drvvars, clkvars, hwvars>>

\* a bound device, enabled for an HDMI receiver, no stream opened yet
InitChmapCtl ==
    /\ variant \in Variants
    /\ regs = RegsEnabled
    /\ audio = [substream |-> 0, streaming |-> FALSE, max_channels |-> 0,
                chmap |-> "none", chmap_idx |-> 0]
    /\ hdmi_monitor = TRUE
    /\ limited_rgb_range = FALSE
    /\ encoder_crtc = TRUE
    /\ pm_usage = 1
    /\ pixel_en = 1
    /\ hsm_en = 1
    /\ unbalanced = {}
    /\ ram = [w \in RamWords |-> 0]
    /\ pc = [u \in Threads |-> "idle"]
    /\ stack = [u \in Threads |-> <<>>]
    /\ loc = [u \in Threads |-> NoLoc]
    /\ trace = [u \in Threads |-> <<>>]
    /\ warned = FALSE
    /\ cec = NoCec
    /\ call = [u \in Threads |-> NoCall]

\* streams are opened, prepared and closed while the receiver changes, and
\* the channel-map control is read in between
NextChmapCtl ==
    \/ StartupToEldChmap
    \/ StartupEldChmap
    \/ PrepareToChAlloc
    \/ PrepareChAlloc
    \/ PrepareChmapIdx
    \/ AudioShutdownBegin
    \/ StopPacketRead("alsa")
    \/ StopPacketWrite("alsa")
    \/ StopPacketWait("alsa")
    \/ AudioResetMai
    \/ ChmapCtlGet
    \/ HandlerExit("alsa")

SpecChmapCtl == InitChmapCtl /\ [][NextChmapCtl]_vars

-----------------------------------------------------------------------------
(* CEC interrupt: vc4_cec_irq_handler in interrupt context and            *)
(* vc4_cec_irq_handler_thread in the interrupt thread.  The line is        *)
(* requested with IRQF_SHARED only, so it is not masked while the thread   *)
(* is pending or running.                                                  *)

\* interrupts the CEC block raises in one run
MaxCecEvents == 3

\* received messages: 1 + REC_WRD_CNT bytes, told apart by their content
CecMsgs == {[len |-> 1, data |-> "a"], [len |-> 16, data |-> "b"]}

\* everything but the CEC state
noncec == <<variant, hdmi_monitor, limited_rgb_range, encoder_crtc, audio,
            warned, clkvars, hwvars, ctlvars, ghost>>

\* the CEC block raises its interrupt: a transmission has ended with or
\* without acknowledge (TX_STATUS_GOOD), or a message has been received
\* (RX_CEC_INT, REC_WRD_CNT and the RX data registers)
CecInterrupt ==
    /\ ~cec.pending
    /\ cec.raised < MaxCecEvents
    /\ \/ \E good \in BOOLEAN :
            cec' = [cec EXCEPT !.pending = TRUE, !.raised = @ + 1,
                               !.rx_int = FALSE, !.tx_good = good]
       \/ \E m \in CecMsgs :
            cec' = [cec EXCEPT !.pending = TRUE, !.raised = @ + 1,
                               !.rx_int = TRUE, !.rx_data = m]
    /\ UNCHANGED noncec

\* vc4_cec_irq_handler, for an interrupt of the CEC block (else IRQ_NONE and
\* nothing changes): cec_rx_msg.len = 0; cec_irq_was_rx = RX_CEC_INT; then
\* vc4_cec_read_msg or cec_tx_ok = TX_STATUS_GOOD; the interrupt is cleared;
\* IRQ_WAKE_THREAD sets the thread's run flag, once however often it is set
\* before the thread looks at it.  events records what this interrupt read.
vc4_cec_irq_handler ==
    /\ cec.pending
    /\ cec' = [cec EXCEPT
                 !.cec_irq_was_rx = cec.rx_int,
                 !.cec_rx_msg = IF cec.rx_int THEN cec.rx_data ELSE NoMsg,
                 !.cec_tx_ok = IF cec.rx_int THEN @ ELSE cec.tx_good,
                 !.pending = FALSE,
                 !.runthread = TRUE,
                 !.events = Append(@, IF cec.rx_int
                                      THEN <<"rx", cec.rx_data>>
                                      ELSE <<"tx", cec.tx_good>>)]
    /\ UNCHANGED noncec

\* the interrupt thread finds its run flag set, clears it and calls
\* vc4_cec_irq_handler_thread
CecThreadWake ==
    /\ cec.thr = "asleep"
    /\ cec.runthread
    /\ cec' = [cec EXCEPT !.runthread = FALSE, !.thr = "t_kind"]
    /\ UNCHANGED noncec

\* vc4_cec_irq_handler_thread: if (vc4_hdmi->cec_irq_was_rx)
CecThreadKind ==
    /\ cec.thr = "t_kind"
    /\ cec' = [cec EXCEPT
                 !.thr = IF cec.cec_irq_was_rx THEN "t_len" ELSE "t_tx"]
    /\ UNCHANGED noncec

\* vc4_cec_irq_handler_thread: if (vc4_hdmi->cec_rx_msg.len); nothing is
\* reported for an empty message
CecThreadLen ==
    /\ cec.thr = "t_len"
    /\ cec' = [cec EXCEPT
                 !.thr = IF cec.cec_rx_msg.len # 0 THEN "t_data" ELSE "asleep"]
    /\ UNCHANGED noncec

\* vc4_cec_irq_handler_thread: cec_received_msg(adap, &cec_rx_msg) copies
\* the message as it stands now
CecThreadReceived ==
    /\ cec.thr = "t_data"
    /\ cec' = [cec EXCEPT
                 !.reports = Append(@, <<"cec_received_msg", cec.cec_rx_msg>>),
                 !.thr = "asleep"]
    /\ UNCHANGED noncec

\* vc4_cec_irq_handler_thread: cec_transmit_done with CEC_TX_STATUS_OK, or
\* with CEC_TX_STATUS_NACK and a nack count of 2
CecThreadTransmitDone ==
    /\ cec.thr = "t_tx"
    /\ cec' = [cec EXCEPT
                 !.reports = Append(@, IF cec.cec_tx_ok
                                       THEN <<"cec_transmit_done", "OK", 0>>
                                       ELSE <<"cec_transmit_done", "NACK", 2>>),
                 !.thr = "asleep"]
    /\ UNCHANGED noncec

\* a bound device with its CEC adapter enabled; no handler of the modeset or
\* audio path is running
InitCec ==
    /\ variant \in Variants
    /\ regs = RegsEnabled
    /\ audio = [substream |-> 0, streaming |-> FALSE]
    /\ hdmi_monitor = TRUE
    /\ limited_rgb_range = FALSE
    /\ encoder_crtc = TRUE
    /\ pm_usage = 1
    /\ pixel_en = 1
    /\ hsm_en = 1
    /\ unbalanced = {}
    /\ ram = [w \in RamWords |-> 0]
    /\ pc = [u \in Threads |-> "idle"]
    /\ stack = [u \in Threads |-> <<>>]
    /\ loc = [u \in Threads |-> NoLoc]
    /\ trace = [u \in Threads |-> <<>>]
    /\ call = [u \in Threads |-> NoCall]
    /\ warned = FALSE
    /\ cec = NoCec

\* the interrupt handler runs whenever the interrupt is raised, the thread
\* whenever it is scheduled
NextCec ==
    \/ CecInterrupt
    \/ vc4_cec_irq_handler
    \/ CecThreadWake
    \/ CecThreadKind
    \/ CecThreadLen
    \/ CecThreadReceived
    \/ CecThreadTransmitDone

SpecCec == InitCec /\ [][NextCec]_vars

-----------------------------------------------------------------------------
(* Properties *)

\* event e occurs in tr
Has(tr, e) == \E i \in DOMAIN tr : tr[i] = e

\* position of the first e in tr, 0 if there is none
First(tr, e) ==
    IF Has(tr, e)
    THEN CHOOSE i \in DOMAIN tr : tr[i] = e /\ \A j \in 1 .. (i - 1) : tr[j] # e
    ELSE 0

\* the events of tr that are in S, in their order
Only(tr, S) == SelectSeq(tr, LAMBDA e : e \in S)

\* the modeset handler `op` has returned and its caller has not moved on
DrmDone(op) == pc["drm"] = "done" /\ call["drm"].op = op

\* enable has run to its end
EnableOk == DrmDone("enable") /\ call["drm"].result = "ok"

\* enable has returned from one of its five failure points
EnableFailed == DrmDone("enable") /\ call["drm"].result # "ok"

\* power and clock counts now
Counts == <<pm_usage, pixel_en, hsm_en>>

\* the HDMI-only part of enable: bank on, infoframes, recenter pulses
HdmiTail ==
    <<"ram_packet_on", "avi_infoframe", "spd_infoframe">>
    \o (IF audio.streaming THEN <<"audio_infoframe">> ELSE <<>>)
    \o <<"recenter_clear", "recenter_set", "recenter_clear", "recenter_set">>

\* slot of frame type `type` was enabled by the handler whose steps are tr:
\* a slot_enable whose nearest infoframe call before it is the one for `type`
SlotEnabledIn(tr, event) ==
    \E i \in DOMAIN tr :
        /\ tr[i] = "slot_enable"
        /\ \E j \in 1 .. (i - 1) :
            /\ tr[j] = event
            /\ \A k \in (j + 1) .. (i - 1) :
                tr[k] \notin {"avi_infoframe", "spd_infoframe", "audio_infoframe"}

\* C1: when enable returns from a failure point, every clock it enabled is
\* disabled again and the power reference it took is released: the counts
\* are what they were when enable was called.
C1_FailedEnableRollsBack ==
    EnableFailed => Counts = call["drm"].entry

C5_NoInterleavedAccess ==
    \A t \in Threads :
        pc[t] \in {"sp_write", "wi_write"} => loc[t].tmp = regs.RAM_PACKET_CONFIG

\* C6: infoframe operations on different slots do not disturb each other:
\* when enable and the audio callback have both finished, the AVI slot that
\* enable has enabled (no audio operation targets it) has its enable bit set.
C6_NoLostSlotEnable ==
    (/\ DrmDone("enable")
     /\ pc["alsa"] \in {"idle", "done"}
     /\ SlotEnabledIn(trace["drm"], "avi_infoframe"))
        => PacketId(HDMI_INFOFRAME_TYPE_AVI) \in regs.RAM_PACKET_CONFIG

\* C7: after a successful enable, limited_rgb_range holds and csc_setup was
\* called with enable=true exactly when the receiver is HDMI and the mode's
\* default quantization range is limited; otherwise csc_setup was called
\* with enable=false and limited_rgb_range is false.
C7_LimitedRange ==
    EnableOk =>
        LET lim == hdmi_monitor /\ mode.limited IN
        /\ limited_rgb_range = lim
        /\ Only(trace["drm"], {"csc_setup_true", "csc_setup_false"})
           = <<IF lim THEN "csc_setup_true" ELSE "csc_setup_false">>
        /\ regs.CSC_CTL = CscCtl(variant, lim)
        /\ lim => regs.CSC = CscCoefficients(variant, TRUE)

\* C7 happens: enable has succeeded with the limited-range matrix
C7_Witness ==
    /\ EnableOk
    /\ limited_rgb_range
    /\ Has(trace["drm"], "csc_setup_true")

\* C8: an enable on a DVI receiver writes no infoframe to the packet RAM,
\* even while audio is streaming, clears the bank enable bit and returns
\* with MODE_HDMI clear.
C8_DviNoInfoframes ==
    (EnableOk /\ ~hdmi_monitor) =>
        /\ Only(trace["drm"], {"avi_infoframe", "spd_infoframe",
                               "audio_infoframe", "pack", "ram_write",
                               "slot_enable", "ram_packet_on"}) = <<>>
        /\ Has(trace["drm"], "ram_packet_off")
        /\ VC4_HDMI_RAM_PACKET_ENABLE \notin regs.RAM_PACKET_CONFIG
        /\ "MODE_HDMI" \notin regs.SCHEDULER_CONTROL

\* C8 happens: enable has run on a DVI receiver while audio was streaming,
\* after an HDMI session had left MODE_HDMI set
C8_Witness ==
    /\ EnableOk
    /\ ~hdmi_monitor
    /\ audio.streaming
    /\ "VERT_ALWAYS_KEEPOUT" \in regs.SCHEDULER_CONTROL

\* C9: a timeout of the HDMI_ACTIVE poll or of the RECENTER_DONE poll does
\* not end enable early: enable still succeeds, the steps after the poll are
\* all performed (HDMI receiver: bank enable, infoframes, recenter pulses),
\* the video-enable bit stays set and clocks and power stay acquired.
C9_PollTimeoutContinues ==
    (/\ DrmDone("enable")
     /\ \/ Has(trace["drm"], "active_timeout")
        \/ Has(trace["drm"], "recenter_timeout"))
    => /\ call["drm"].result = "ok"
       /\ "ENABLE" \in regs.VID_CTL
       /\ Counts = <<call["drm"].entry[1] + 1, call["drm"].entry[2] + 1,
                     call["drm"].entry[3] + 1>>
       /\ Only(trace["drm"],
               {"ram_packet_on", "avi_infoframe", "spd_infoframe",
                "audio_infoframe", "recenter_clear", "recenter_set"})
          = IF hdmi_monitor THEN HdmiTail ELSE <<>>
       /\ hdmi_monitor =>
            /\ First(trace["drm"], "ram_packet_on")
               > First(trace["drm"], "mode_hdmi")
            /\ \/ Has(trace["drm"], "recenter_seen")
               \/ Has(trace["drm"], "recenter_timeout")

\* C9 happens: both polls of one enable on an HDMI receiver have timed out
C9_Witness ==
    /\ DrmDone("enable")
    /\ hdmi_monitor
    /\ Has(trace["drm"], "active_timeout")
    /\ Has(trace["drm"], "recenter_timeout")

\* C10: every handler that has been entered returns, whatever the status
\* flags read: each poll gives up after its bound; and enable returns either
\* at its end or from one of its five failure points.
C10_Terminates ==
    /\ \A t \in Threads : (pc[t] # "idle") ~> (pc[t] = "done")
    /\ [](DrmDone("enable") =>
            call["drm"].result \in {"ok", "err_pm", "err_pixel_rate",
                                    "err_pixel_enable", "err_hsm_rate",
                                    "err_hsm_enable"})

\* C10 happens: an audio shutdown has returned although the audio slot never
\* went idle
C10_Witness ==
    /\ pc["alsa"] = "done"
    /\ call["alsa"].op = "shutdown"
    /\ Has(trace["alsa"], "slot_idle_timeout")


-----------------------------------------------------------------------------
(* The packet engine *)

\* the steps vc4_hdmi_write_infoframe and vc4_hdmi_stop_packet log
PacketEvents ==
    {"pack", "slot_disable", "slot_idle", "slot_idle_timeout", "ram_write",
     "slot_enable", "slot_active", "slot_active_timeout"}

\* s is a prefix of full
IsPrefix(s, full) ==
    Len(s) <= Len(full) /\ s = SubSeq(full, 1, Len(s))

\* the steps of the latest vc4_hdmi_write_infoframe call in tr, from its
\* hdmi_infoframe_pack on
WriteSteps(tr) ==
    LET e == Only(tr, PacketEvents)
        packs == {i \in DOMAIN e : e[i] = "pack"}
    IN  IF packs = {} THEN <<>>
        ELSE SubSeq(e, CHOOSE i \in packs : \A j \in packs : j <= i, Len(e))

\* the three complete runs of vc4_hdmi_write_infoframe
WriteRuns ==
    {<<"pack", "slot_disable", "slot_idle_timeout">>,
     <<"pack", "slot_disable", "slot_idle", "ram_write", "slot_enable",
       "slot_active">>,
     <<"pack", "slot_disable", "slot_idle", "ram_write", "slot_enable",
       "slot_active_timeout">>}

\* C11 as written: the slot is disabled and idle before the packet is
\* serialized, so whenever the packet has just been serialized the step
\* before it was the slot going idle and the slot's enable bit is clear.
C11_DisableBeforePack ==
    \A t \in Threads :
        /\ \A i \in DOMAIN trace[t] :
             trace[t][i] = "pack" => (i > 1 /\ trace[t][i - 1] = "slot_idle")
        /\ (pc[t] = "sp_read" /\ stack[t] # <<>> /\ Head(stack[t]) = "wi_stopped")
             => PacketId(loc[t].frame) \notin regs.RAM_PACKET_CONFIG

\* C11 amended: every call of vc4_hdmi_write_infoframe serializes the packet
\* first, then clears the slot's enable bit and waits for idle, then writes
\* the RAM words, then sets the enable bit, then polls for active; it stops
\* after the idle wait when that wait times out.
C11_WriteOrder ==
    \A t \in Threads :
        \E run \in WriteRuns : IsPrefix(WriteSteps(trace[t]), run)

\* C11 happens: a call has run through all its steps and seen the slot active
C11_Witness ==
    \E t \in Threads :
        /\ pc[t] = "done"
        /\ WriteSteps(trace[t]) =
             <<"pack", "slot_disable", "slot_idle", "ram_write", "slot_enable",
               "slot_active">>

\* the RAM words of the slot of frame type `type`
SlotWindow(type) ==
    LET first == PacketId(type) * (VC4_HDMI_PACKET_STRIDE \div 4)
    IN  first .. (first + VC4_HDMI_PACKET_STRIDE \div 4 - 1)

\* the indices of buffer[] the copy loop reads: i + 0 .. i + 6 for every
\* i = 0, 7, 14, .. below the length
ReadBytes(type) == 0 .. (7 * ((PackLen(type) + 6) \div 7) - 1)

\* C12: a frame no longer than the stride is copied inside its own slot:
\* every RAM word that holds data of a frame lies in the window of that
\* frame's slot, and the copy loop reads no byte at or beyond index stride
\* of the buffer.
C12_WriteStaysInSlot ==
    /\ \A w \in RamWords : ram[w] # 0 => w \in SlotWindow(ram[w])
    /\ \A t \in Threads :
         (pc[t] = "wi_read" /\ PackLen(loc[t].frame) <= VC4_HDMI_PACKET_STRIDE)
            => \A b \in ReadBytes(loc[t].frame) : b < VC4_HDMI_PACKET_STRIDE

\* an infoframe write of the handler whose steps are tr has timed out
WriteTimedOut(tr) ==
    Has(tr, "slot_idle_timeout") \/ Has(tr, "slot_active_timeout")

\* C13: a timeout inside an infoframe write is not an error for the caller:
\* the step after the timeout is the caller's next one (the next infoframe,
\* or the first recenter write), enable still succeeds with all infoframes
\* attempted and the recenter pulses done, the video-enable bit stays set and
\* clocks and power stay acquired; a trigger(start) whose write timed out
\* still starts the stream and returns 0.
C13_WriteTimeoutNotFatal ==
    /\ (DrmDone("enable") /\ WriteTimedOut(trace["drm"]))
       => /\ call["drm"].result = "ok"
          /\ "ENABLE" \in regs.VID_CTL
          /\ Counts = <<call["drm"].entry[1] + 1, call["drm"].entry[2] + 1,
                        call["drm"].entry[3] + 1>>
          /\ Only(trace["drm"],
                  {"ram_packet_on", "avi_infoframe", "spd_infoframe",
                   "recenter_clear", "recenter_set"})
             = <<"ram_packet_on", "avi_infoframe", "spd_infoframe",
                 "recenter_clear", "recenter_set", "recenter_clear",
                 "recenter_set">>
          /\ \A i \in DOMAIN trace["drm"] :
               trace["drm"][i] \in {"slot_idle_timeout", "slot_active_timeout"}
               => /\ i < Len(trace["drm"])
                  /\ trace["drm"][i + 1] \in
                       {"spd_infoframe", "audio_infoframe", "recenter_clear"}
    /\ (/\ pc["alsa"] = "done"
        /\ call["alsa"].op = "trigger_start"
        /\ WriteTimedOut(trace["alsa"]))
       => /\ call["alsa"].result = "ok"
          /\ audio.streaming
          /\ Has(trace["alsa"], "mai_enable")

\* C13 happens: in one enable the AVI slot never went idle and a later slot
\* never became active
C13_Witness ==
    /\ DrmDone("enable")
    /\ Has(trace["drm"], "slot_idle_timeout")
    /\ Has(trace["drm"], "slot_active_timeout")
    /\ First(trace["drm"], "slot_idle_timeout")
       < First(trace["drm"], "spd_infoframe")

\* C14: a timeout of the wait for idle or for active inside an infoframe
\* write reaches the caller as an error and the enable sequence is aborted:
\* an enable during which such a wait timed out does not return success.
C14_WriteTimeoutFatal ==
    (DrmDone("enable") /\ WriteTimedOut(trace["drm"]))
        => call["drm"].result # "ok"

\* the infoframe calls of vc4_hdmi_set_infoframes
InfoframeEvents ==
    {<<HDMI_INFOFRAME_TYPE_AVI, "avi_infoframe">>,
     <<HDMI_INFOFRAME_TYPE_SPD, "spd_infoframe">>,
     <<HDMI_INFOFRAME_TYPE_AUDIO, "audio_infoframe">>}

\* the write started by `event` in tr went through `step`
WriteWent(tr, event, step) ==
    \E i \in DOMAIN tr :
        /\ tr[i] = step
        /\ \E j \in 1 .. (i - 1) :
            /\ tr[j] = event
            /\ \A k \in (j + 1) .. (i - 1) :
                tr[k] \notin {"avi_infoframe", "spd_infoframe", "audio_infoframe"}

\* C14 amended: a timeout of the wait for idle or for active is logged and
\* ends at most the infoframe write it happened in; it does not reach the
\* caller.  After an enable with such a timeout: enable has succeeded, the
\* recenter pulses were done, a write whose wait for idle timed out has
\* neither written the slot's RAM nor set its enable bit, and every other
\* write has done both, also the one whose wait for active timed out.
C14_WriteTimeoutLocal ==
    (DrmDone("enable") /\ WriteTimedOut(trace["drm"]))
    => /\ call["drm"].result = "ok"
       /\ Only(trace["drm"], {"recenter_clear", "recenter_set"})
          = <<"recenter_clear", "recenter_set", "recenter_clear", "recenter_set">>
       /\ \A f \in InfoframeEvents :
            /\ WriteWent(trace["drm"], f[2], "slot_idle_timeout")
               => /\ ~WriteWent(trace["drm"], f[2], "ram_write")
                  /\ ~WriteWent(trace["drm"], f[2], "slot_enable")
            /\ WriteWent(trace["drm"], f[2], "slot_idle")
               => /\ WriteWent(trace["drm"], f[2], "ram_write")
                  /\ WriteWent(trace["drm"], f[2], "slot_enable")

\* C14 happens: in one enable the SPD slot did not go idle and the AVI slot
\* did not become active
C14_Witness ==
    /\ DrmDone("enable")
    /\ WriteWent(trace["drm"], "spd_infoframe", "slot_idle_timeout")
    /\ WriteWent(trace["drm"], "avi_infoframe", "slot_active_timeout")

\* the packet-RAM bank is off
BankOff == VC4_HDMI_RAM_PACKET_ENABLE \notin regs.RAM_PACKET_CONFIG

\* context t has just passed the bank check and the serialization of
\* vc4_hdmi_write_infoframe
JustPacked(t) ==
    pc[t] = "sp_read" /\ stack[t] # <<>> /\ Head(stack[t]) = "wi_stopped"

-----------------------------------------------------------------------------
(* The audio callbacks *)

AlsaDone(op) == pc["alsa"] = "done" /\ call["alsa"].op = op

\* VC4_HD_MAI_CTL_ENABLE after the steps tr: HDMI_MAI_CTL is written whole,
\* so the last write of it decides
MaiEnabledBy(tr) ==
    LET w == Only(tr, {"mai_enable", "mai_disable", "mai_reset", "mai_errorf",
                       "mai_flush"})
    IN  w # <<>> /\ w[Len(w)] = "mai_enable"

\* C17: trigger(start) runs the audio infoframe write (which writes and
\* enables the slot unless the slot did not go idle), then sets
\* audio.streaming, enables the PHY RNG and last enables the MAI path;
\* trigger(stop) disables the MAI path, disables the PHY RNG and clears
\* audio.streaming, in this order; both return 0.  So when a trigger has
\* returned, audio.streaming is true exactly if it was a start, the MAI
\* enable bit agrees with it, and no step outside a trigger sets the flag.
C17_TriggerStreaming ==
    /\ [](AlsaDone("trigger_start")
           => /\ call["alsa"].result = "ok"
              /\ audio.streaming
              /\ MaiEnabledBy(trace["alsa"])
              /\ \E run \in WriteRuns :
                   Only(trace["alsa"],
                        PacketEvents \cup {"streaming_set", "phy_rng_enable",
                                           "mai_enable"})
                   = run \o <<"streaming_set", "phy_rng_enable", "mai_enable">>
              /\ Has(trace["alsa"], "slot_idle")
                   => PacketId(HDMI_INFOFRAME_TYPE_AUDIO)
                        \in regs.RAM_PACKET_CONFIG)
    /\ [](AlsaDone("trigger_stop")
           => /\ call["alsa"].result = "ok"
              /\ ~audio.streaming
              /\ ~MaiEnabledBy(trace["alsa"])
              /\ trace["alsa"]
                 = <<"mai_disable", "phy_rng_disable", "streaming_clear">>)
    /\ [][(~audio.streaming /\ audio'.streaming)
            => (pc["alsa"] = "tr_start" /\ pc'["alsa"] = "done")]_vars
    /\ [][(audio.streaming /\ ~audio'.streaming)
            => call'["alsa"].op \in {"trigger_stop", "shutdown"}]_vars

\* C17 happens: a trigger(stop) has returned after a trigger(start) had
\* enabled the audio slot
C17_Witness ==
    /\ AlsaDone("trigger_stop")
    /\ ~audio.streaming
    /\ PacketId(HDMI_INFOFRAME_TYPE_AUDIO) \in regs.RAM_PACKET_CONFIG

-----------------------------------------------------------------------------
(* Infoframes at enable *)

\* C18: an enable that went into the HDMI branch has turned the packet-RAM
\* bank on, then called the AVI and the SPD infoframe write, and then the
\* audio infoframe write exactly if audio.streaming is set; with the flag
\* set (a stream started earlier and not stopped, an encoder disable in
\* between or not) the audio slot is enabled again when enable returns,
\* unless the slot did not go idle.
C18_AudioInfoframeAtEnable ==
    (EnableOk /\ hdmi_monitor)
    => /\ ~BankOff
       /\ Only(trace["drm"], {"ram_packet_on", "avi_infoframe",
                              "spd_infoframe", "audio_infoframe"})
          = <<"ram_packet_on", "avi_infoframe", "spd_infoframe">>
            \o (IF audio.streaming THEN <<"audio_infoframe">> ELSE <<>>)
       /\ \A f \in InfoframeEvents :
            PacketId(f[1]) \in regs.RAM_PACKET_CONFIG
                <=> WriteWent(trace["drm"], f[2], "slot_idle")
       /\ audio.streaming
            => (\/ WriteWent(trace["drm"], "audio_infoframe", "slot_enable")
                \/ WriteWent(trace["drm"], "audio_infoframe",
                             "slot_idle_timeout"))

\* C18 happens: a stream was started while the encoder was enabled for an
\* HDMI receiver (no infoframe write ever found the bank off), the encoder
\* was disabled and enabled again, and this enable has enabled the audio slot
C18_Witness ==
    /\ EnableOk
    /\ hdmi_monitor
    /\ audio.streaming
    /\ ~warned
    /\ call["drm"].entry = <<0, 0, 0>>
    /\ pc["alsa"] = "idle"
    /\ PacketId(HDMI_INFOFRAME_TYPE_AUDIO) \in regs.RAM_PACKET_CONFIG

-----------------------------------------------------------------------------
(* Channel allocation *)

\* the lookup has returned for speaker-allocation byte and channel count
AllocDone == pc["alsa"] = "ch_store"

\* what it returned
AllocIdx == loc["alsa"].k

SpkAlloc == call["alsa"].arg[1]

Channels == call["alsa"].arg[2]

\* C indices of the table entries with this channel count whose speakers
\* the receiver all has
Fitting(spk_alloc, channels) ==
    {i \in 0 .. (Len(hdmi_codec_channel_alloc) - 1) :
        /\ hdmi_codec_channel_alloc[i + 1].n_ch = channels
        /\ hdmi_codec_channel_alloc[i + 1].mask
              \subseteq hdmi_codec_spk_mask_from_alloc(spk_alloc)}

\* C19: with a non-zero speaker-allocation byte the lookup returns the
\* first entry, in the table's written order, that has the requested channel
\* count and only speakers the receiver has (-EINVAL if there is none):
\* FL|FR with 2 channels gives ca_id 0x00, FL|FR|LFE|FC|RL|RR with 6
\* channels gives ca_id 0x0b although 0x08, 0x09 and 0x0a fit as well.
C19_FirstFittingEntry ==
    (AllocDone /\ SpkAlloc # 0)
    => LET fit == Fitting(SpkAlloc, Channels)
           idx == AllocIdx
       IN  /\ fit = {} => idx = -EINVAL
           /\ fit # {} => (idx \in fit /\ \A j \in fit : idx <= j)
           /\ (SpkAlloc = 1 /\ Channels = 2)
                => hdmi_codec_channel_alloc[idx + 1].ca_id = 0
           /\ (SpkAlloc = 15 /\ Channels = 6)
                => /\ hdmi_codec_spk_mask_from_alloc(SpkAlloc)
                      = {"FL", "FR", "LFE", "FC", "RL", "RR"}
                   /\ hdmi_codec_channel_alloc[idx + 1].ca_id = 11
                   /\ {hdmi_codec_channel_alloc[j + 1].ca_id : j \in fit}
                      = {8, 9, 10, 11}

\* C19 happens: the lookup for 6 channels on a 5.1 receiver has returned
\* the entry with ca_id 0x0b
C19_Witness ==
    /\ AllocDone
    /\ SpkAlloc = 15
    /\ Channels = 6
    /\ AllocIdx = 3

\* C20: with a speaker-allocation byte of 0 the lookup returns the stereo
\* entry (ca_id 0x00, 2 channels, FL|FR), never -EINVAL, whatever the
\* channel count from 2 to 8.
C20_StereoFallback ==
    (AllocDone /\ SpkAlloc = 0 /\ Channels \in 2 .. 8)
    => /\ AllocIdx = 0
       /\ hdmi_codec_channel_alloc[AllocIdx + 1]
          = [ca_id |-> 0, n_ch |-> 2, mask |-> {"FL", "FR"}]

\* C20 happens: the lookup for 8 channels on a receiver without speaker
\* information has returned
C20_Witness ==
    /\ AllocDone
    /\ SpkAlloc = 0
    /\ Channels = 8

\* C21: a prepare whose lookup finds no fitting entry still returns 0, with
\* the failure logged and the marker HDMI_CODEC_CHMAP_IDX_UNKNOWN in
\* audio.chmap_idx; and a trigger(start) that finds the marker there still
\* sets audio.streaming, enables the MAI path and returns 0.
C21_NoAllocationNotFatal ==
    /\ AlsaDone("prepare")
       => /\ call["alsa"].result = "ok"
          /\ (SpkAlloc # 0 /\ Fitting(SpkAlloc, Channels) = {})
             => /\ audio.chmap_idx = HDMI_CODEC_CHMAP_IDX_UNKNOWN
                /\ trace["alsa"] = <<"ch_alloc", "err_no_mapping", "chmap_idx_set">>
          /\ (SpkAlloc = 0 \/ Fitting(SpkAlloc, Channels) # {})
             => /\ audio.chmap_idx # HDMI_CODEC_CHMAP_IDX_UNKNOWN
                /\ trace["alsa"] = <<"ch_alloc", "chmap_idx_set">>
    /\ (AlsaDone("trigger_start")
        /\ audio.chmap_idx = HDMI_CODEC_CHMAP_IDX_UNKNOWN)
       => /\ call["alsa"].result = "ok"
          /\ audio.streaming
          /\ MaiEnabledBy(trace["alsa"])

\* C21 happens: a trigger(start) has started the stream after a prepare
\* that found no entry
C21_Witness ==
    /\ AlsaDone("trigger_start")
    /\ audio.chmap_idx = HDMI_CODEC_CHMAP_IDX_UNKNOWN
    /\ audio.streaming
    /\ Has(trace["alsa"], "slot_active")

\* C22: hdmi_codec_eld_chmap selects the 8-channel maps exactly when the
\* speaker mask expanded from the ELD's speaker-allocation byte holds a
\* speaker other than FL and FR, and the stereo maps otherwise (so for the
\* bytes 0 and 1); the channel count of the stream plays no part
C22_EldChmap ==
    AlsaDone("startup")
    => LET spk_alloc == call["alsa"].arg
           others == hdmi_codec_spk_mask_from_alloc(spk_alloc) \ {"FL", "FR"}
       IN  /\ call["alsa"].result = "ok"
           /\ audio.chmap \in {"hdmi_codec_8ch_chmaps",
                               "hdmi_codec_stereo_chmaps"}
           /\ audio.chmap = "hdmi_codec_8ch_chmaps" <=> others # {}
           /\ spk_alloc \in {0, 1} => audio.chmap = "hdmi_codec_stereo_chmaps"
           /\ spk_alloc >= 2 => audio.chmap = "hdmi_codec_8ch_chmaps"

C22_Witness ==
    /\ AlsaDone("startup")
    /\ call["alsa"].arg = 1
    /\ audio.channels = 8
    /\ audio.chmap = "hdmi_codec_stereo_chmaps"

\* C23: vc4_hdmi_encoder_mode_valid answers MODE_OK for every mode whose
\* clock in Hz is at most the variant's max_pixel_clock and MODE_CLOCK_HIGH
\* for every mode above it
C23_ModeValid ==
    DrmDone("mode_valid")
    => call["drm"].result =
         IF call["drm"].arg.clock <= max_pixel_clock(variant) \div 1000
         THEN "MODE_OK" ELSE "MODE_CLOCK_HIGH"

\* C23, the part that holds: the answer is right for every clock whose rate
\* in Hz fits an int, and the call changes no driver or hardware state
C23_ModeValidInRange ==
    [][pc["drm"] = "mode_valid"
       => /\ UNCHANGED <<drvvars, clkvars, hwvars>>
          /\ call["drm"].arg.clock <= 2147483
             => call'["drm"].result =
                  IF call["drm"].arg.clock * 1000 <= max_pixel_clock(variant)
                  THEN "MODE_OK" ELSE "MODE_CLOCK_HIGH"]_vars

\* a mode far above the limit is accepted
C23_Overflow ==
    /\ DrmDone("mode_valid")
    /\ call["drm"].arg.clock = 4294968
    /\ call["drm"].result = "MODE_OK"

\* the clock rates enable has asked for
RatesSet == DrmDone("enable") /\ Has(trace["drm"], "hsm_set_rate")

\* C24: enable asks for a pixel clock of mode clock x 1000 x pixel repeat
\* (2 for a double-clocked mode, else 1) and for an HSM clock of 163682864 Hz
\* on the first generation and of max(108 MHz, 1.01 x pixel rate) on the
\* second, for every pixel rate up to twice the variant's max_pixel_clock
C24_ClockRates ==
    RatesSet
    => LET m == call["drm"].arg
           pr == m.clock * 1000 * (IF m.dblclk THEN 2 ELSE 1)
           hsm == loc["drm"].hsm_rate
       IN  pr <= 2 * max_pixel_clock(variant)
           => /\ loc["drm"].pixel_rate = pr
              /\ variant = "bcm2835" => hsm = 163682864
              /\ variant = "bcm2711"
                 => /\ pr % 100 = 0
                    /\ hsm >= 108000000
                    /\ hsm >= pr + pr \div 100
                    /\ hsm \in {108000000, pr + pr \div 100}

C24_Witness ==
    /\ RatesSet
    /\ variant = "bcm2711"
    /\ call["drm"].arg = [clock |-> 297000, dblclk |-> TRUE]
    /\ loc["drm"].pixel_rate = 594000000
    /\ loc["drm"].hsm_rate = 599940000

\* prepare has programmed N and CTS
NCtsSet == pc["alsa"] = "ch_alloc" /\ Has(trace["alsa"], "n_cts")

\* C25: set_n_cts programs N = 128 x rate / 1000 and
\* CTS = clock in Hz x N / (128 x rate), both rounded down, into CTS_0 and
\* CTS_1 alike; for the rates of the DAI and every mode clock up to the
\* variant's limit the 32-bit values 128 x rate and clock x 1000 do not wrap
\* and the 64-bit product stays below 2^31 x 2^15.  With 128 x rate =
\* 1000 x N + e, the quotient is clock - ceil(clock x e / (128 x rate)).
C25_NCts ==
    NCtsSet
    => LET clock == call["alsa"].arg.clock
           d == 128 * audio.samplerate
           e == d % 1000
       IN  /\ d < 2 ^ 25
           /\ ClockTimes1000(clock) = clock * 1000
           /\ clock * 1000 <= max_pixel_clock(variant)
           /\ regs.CRP_CFG.N = d \div 1000
           /\ regs.CRP_CFG.N < 2 ^ 15
           /\ regs.CRP_CFG.EXTERNAL_CTS_EN
           /\ regs.CTS_0 = clock - (clock * e + d - 1) \div d
           /\ regs.CTS_0 \in 0 .. clock
           /\ regs.CTS_1 = regs.CTS_0

C25_Witness ==
    /\ NCtsSet
    /\ audio.samplerate = 44100
    /\ call["alsa"].arg.clock = 148500
    /\ regs.CRP_CFG.N = 5644
    /\ regs.CTS_0 = 148478
    /\ regs.CTS_1 = 148478

\* prepare has programmed the MAI clock divider
MaiSmpSet == Has(trace["alsa"], "mai_smp")

\* |N / M - hsm / rate| x M x rate, with hsm = q x rate + r
RatioError(N, M, q, r, rate) ==
    LET x == (N - q * M) * rate - r * M
    IN  IF x < 0 THEN -x ELSE x

\* C26: set_mai_clock gets (N, M) with N in the N field's range and
\* 1 <= M <= 256 such that no other such pair is closer to
\* hsm_clock / samplerate (for each M the two N next to the ratio are the
\* ones to beat); the search ends within two turns per bit of the sample
\* rate (below 2^18); M - 1 is written to the M field without wrapping and
\* N to the N field uncut
C26_MaiClockBest ==
    MaiSmpSet
    => LET hsm == get_hsm_clock(variant)
           rate == audio.samplerate
           q == hsm \div rate
           r == hsm % rate
           n == loc["alsa"].n
           m == loc["alsa"].m
       IN  /\ m \in 1 .. (VC4_HD_MAI_SMP_M_MAX + 1)
           /\ n \in 1 .. VC4_HD_MAI_SMP_N_MAX
           /\ loc["alsa"].turns <= 2 * 18
           /\ RatioError(n, m, q, r, rate) <= rate
           /\ \A M \in 1 .. (VC4_HD_MAI_SMP_M_MAX + 1), k \in 0 .. 1 :
                LET N == q * M + (r * M) \div rate + k
                IN  N <= VC4_HD_MAI_SMP_N_MAX
                    => RatioError(n, m, q, r, rate) * M
                         <= RatioError(N, M, q, r, rate) * m
           /\ regs.MAI_SMP.N = n
           /\ regs.MAI_SMP.M = m - 1
           /\ regs.MAI_SMP.M \in 0 .. VC4_HD_MAI_SMP_M_MAX

C26_Witness ==
    /\ MaiSmpSet
    /\ variant = "bcm2835"
    /\ audio.samplerate = 44100
    /\ loc["alsa"].m > 1
    /\ regs.MAI_SMP.M = loc["alsa"].m - 1

\* prepare has programmed the MAI format
MaiFmtSet == Has(trace["alsa"], "mai_fmt")

\* C27: prepare selects the HBR (compressed) MAI format if and only if the
\* non-audio flag of IEC958 status byte 0 is set and the stream has exactly
\* 8 channels; every other combination selects PCM
C27_MaiFormat ==
    MaiFmtSet
    => /\ regs.MAI_FMT.AUDIO_FORMAT \in {"VC4_HDMI_MAI_FORMAT_HBR",
                                         "VC4_HDMI_MAI_FORMAT_PCM"}
       /\ regs.MAI_FMT.AUDIO_FORMAT = "VC4_HDMI_MAI_FORMAT_HBR"
          <=> ("NONAUDIO" \in audio.iec_status0 /\ audio.channels = 8)

C27_Witness ==
    /\ MaiFmtSet
    /\ audio.iec_status0 = {"NONAUDIO"}
    /\ audio.channels = 2
    /\ regs.MAI_FMT.AUDIO_FORMAT = "VC4_HDMI_MAI_FORMAT_PCM"

\* set_timings has run n times for the mode
TimingsApplied(n) ==
    /\ call["drm"].op = "set_timings"
    /\ Len(trace["drm"]) = n

\* C28: the values set_timings writes to HORZA, HORZB, VERTA0/1, VERTB0/1
\* and VID_CTL depend on the mode and the variant only: a second call with
\* the same mode writes what the first wrote, and the same values come out
\* over every earlier content of the registers
C28_TimingsIdempotent ==
    (TimingsApplied(1) \/ TimingsApplied(2))
    => /\ TimingRegs(regs) = loc["drm"].first
       /\ \A prior \in PriorTimings(variant) :
            TimingRegs(set_timings(prior, variant, call["drm"].arg))
              = TimingRegs(regs)

C28_Witness ==
    /\ TimingsApplied(2)
    /\ DrmDone("set_timings")
    /\ "INTERLACE" \in call["drm"].arg.flags
    /\ "ENABLE" \notin regs.VID_CTL
    /\ regs.VERTB0.VBP = 14
    /\ regs.VERTB1.VBP = 15

\* C29: VERTA0 and VERTA1 hold the same sync width, front porch and active
\* height; the back porch of VERTB0 (even field) equals that of VERTB1 for
\* a progressive mode and is one line less for an interlaced mode with at
\* least one back-porch line, where it is the count itself less one and has
\* not wrapped
C29_EvenFieldBackPorch ==
    (TimingsApplied(1) \/ TimingsApplied(2))
    => LET m == call["drm"].arg
           bp == m.crtc_vtotal - m.crtc_vsync_end
       IN  /\ regs.VERTA0 = regs.VERTA1
           /\ regs.VERTA0 = [VSP |-> m.crtc_vsync_end - m.crtc_vsync_start,
                             VFP |-> m.crtc_vsync_start - m.crtc_vdisplay,
                             VAL |-> m.crtc_vdisplay]
           /\ regs.VERTB0.VSPO = 0 /\ regs.VERTB1.VSPO = 0
           /\ regs.VERTB1.VBP = bp
           /\ "INTERLACE" \notin m.flags => regs.VERTB0.VBP = regs.VERTB1.VBP
           /\ ("INTERLACE" \in m.flags /\ bp >= 1)
              => /\ regs.VERTB0.VBP = regs.VERTB1.VBP - 1
                 /\ regs.VERTB0.VBP = bp - 1
                 /\ regs.VERTB0.VBP >= 0

C29_Witness ==
    /\ TimingsApplied(1)
    /\ variant = "bcm2711"
    /\ "INTERLACE" \in call["drm"].arg.flags
    /\ call["drm"].arg.crtc_vtotal - call["drm"].arg.crtc_vsync_end = 1
    /\ regs.VERTB0.VBP = 0
    /\ regs.VERTB1.VBP = 1

\* an interlaced mode without a back-porch line: the even field's count
\* wraps to the largest value of the field
C29_WrapsAtZero ==
    /\ TimingsApplied(1)
    /\ "INTERLACE" \in call["drm"].arg.flags
    /\ regs.VERTB1.VBP = 0
    /\ regs.VERTB0.VBP = 511

\* enable takes the step that calls csc_setup(vc4_hdmi, false)
CscSetupFalse ==
    /\ pc["drm"] = "en_csc"
    /\ trace'["drm"] = Append(trace["drm"], "csc_setup_false")

\* C30: csc_setup(false) keeps the colour order: on the first generation
\* HDMI_CSC_CTL is written with ORDER_BGR alone (the enable, RGB2YCC and
\* custom-mode bits clear) and the six coefficient registers keep what they
\* held; on the second generation HDMI_CSC_CTL gets the word of the enable
\* path and the coefficient registers the unity matrix
C30_CscDisableKeepsOrder ==
    [][CscSetupFalse
       => /\ variant = "bcm2835"
             => /\ regs'.CSC_CTL = {"ORDER_BGR"}
                /\ regs'.CSC = regs.CSC
          /\ variant = "bcm2711"
             => /\ regs'.CSC_CTL = {"VC5_CUSTOM_MATRIX_RGB_TO_YCBCR"}
                /\ regs'.CSC_CTL = CscCtl(variant, TRUE)
                /\ regs'.CSC = <<8192, 0, 536870912, 0, 0, 8192>>
          /\ ~limited_rgb_range']_vars

C30_Witness ==
    /\ variant = "bcm2835"
    /\ pc["drm"] = "en_viden"
    /\ Has(trace["drm"], "csc_setup_false")
    /\ regs.CSC_CTL = {"ORDER_BGR"}
    /\ regs.CSC = <<0, 16778976, 115343360, 16777216, 1760, 16777216>>

\* the steps of the recenter sequence
RecenterEvents ==
    {"recenter_clear", "recenter_set", "recenter_seen", "recenter_timeout"}

\* C31: for an HDMI receiver enable ends with the recenter sequence, after
\* everything the infoframes did: HDMI_FIFO_CTL written with RECENTER clear,
\* set, clear, set, then the poll for RECENTER_DONE, whose timeout does not
\* fail enable; RECENTER is left set.  For a DVI receiver no step of the
\* sequence is taken.
C31_RecenterSequence ==
    DrmDone("enable")
    => LET tr == trace["drm"]
           n == Len(tr)
       IN  IF call["drm"].result = "ok" /\ hdmi_monitor
           THEN /\ n >= 5
                /\ SubSeq(tr, n - 4, n - 1)
                     = <<"recenter_clear", "recenter_set", "recenter_clear",
                         "recenter_set">>
                /\ tr[n] \in {"recenter_seen", "recenter_timeout"}
                /\ Len(Only(tr, RecenterEvents)) = 5
                /\ "RECENTER" \in regs.FIFO_CTL
           ELSE Only(tr, RecenterEvents) = <<>>

C31_Witness ==
    /\ EnableOk
    /\ hdmi_monitor
    /\ audio.streaming
    /\ Has(trace["drm"], "audio_infoframe")
    /\ trace["drm"][Len(trace["drm"])] = "recenter_timeout"
    /\ "RECENTER" \in regs.FIFO_CTL

\* the speakers of a channel map: its positions other than NA
ChmapSpeakers(e) == {e.map[i] : i \in DOMAIN e.map} \ {"NA"}

\* C32: every entry of hdmi_codec_channel_alloc has a ca_id that is an index
\* (0x00 .. 0x1f) of hdmi_codec_8ch_chmaps, and the speakers of its mask are
\* the speakers of the channel map at that index, as the table stands when
\* prepare searches it
C32_AllocMatchesChmaps ==
    pc["alsa"] = "ch_alloc"
    => \A i \in DOMAIN hdmi_codec_channel_alloc :
         LET e == hdmi_codec_channel_alloc[i]
         IN  /\ e.ca_id \in 0 .. 31
             /\ e.ca_id + 1 \in DOMAIN hdmi_codec_8ch_chmaps
             /\ e.mask = ChmapSpeakers(hdmi_codec_8ch_chmaps[e.ca_id + 1])

\* C32, the part that holds: every ca_id is an index of the channel maps,
\* and the entry that prepare has found agrees with its channel map
C32_SelectedEntryMatches ==
    /\ \A i \in DOMAIN hdmi_codec_channel_alloc :
         hdmi_codec_channel_alloc[i].ca_id + 1 \in DOMAIN hdmi_codec_8ch_chmaps
    /\ (AllocDone /\ AllocIdx >= 0)
       => LET e == hdmi_codec_channel_alloc[AllocIdx + 1]
          IN  e.mask = ChmapSpeakers(hdmi_codec_8ch_chmaps[e.ca_id + 1])


\* C33: whatever power or clock operation fails, no clock is disabled and no
\* power reference released more often than it was enabled or acquired (no
\* count is pushed below zero), and a disable after a successful enable
\* brings each count back to its value before the enable.
C33_CountsBalanced ==
    /\ pm_usage >= 0
    /\ pixel_en >= 0
    /\ hsm_en >= 0
    /\ unbalanced = {}
    /\ (DrmDone("disable") /\ call["drm"].entry = <<1, 1, 1>>)
       => Counts = <<0, 0, 0>>

\* the part of C33 that the code keeps: the counts themselves stay at or
\* above zero and a disable after a successful enable returns them to zero
C33_CountsRoundTrip ==
    /\ pm_usage >= 0
    /\ pixel_en >= 0
    /\ hsm_en >= 0
    /\ (DrmDone("disable") /\ call["drm"].entry = <<1, 1, 1>>)
       => Counts = <<0, 0, 0>>


\* C34: for every mode that vc4_hdmi_encoder_mode_valid accepts, double
\* clocked or not, the HSM clock rate enable asks for is strictly greater
\* than the pixel clock rate it asks for, on both generations.
C34_HsmAbovePixel ==
    (RatesSet
     /\ vc4_hdmi_encoder_mode_valid(variant, call["drm"].arg.clock) = "MODE_OK")
    => loc["drm"].hsm_rate > loc["drm"].pixel_rate

\* the part of C34 that the code keeps: the HSM rate is above the pixel
\* rate of an accepted mode on the second generation, and on the first for
\* modes that are not double clocked
C34_HsmAbovePixelSingle ==
    (RatesSet
     /\ vc4_hdmi_encoder_mode_valid(variant, call["drm"].arg.clock) = "MODE_OK"
     /\ (variant = "bcm2711" \/ ~call["drm"].arg.dblclk))
    => loc["drm"].hsm_rate > loc["drm"].pixel_rate


\* C35: in every state the handlers can reach, an infoframe slot's enable
\* bit in HDMI_RAM_PACKET_CONFIG is set only if the bank enable bit
\* VC4_HDMI_RAM_PACKET_ENABLE is set too.
C35_SlotNeedsBank ==
    (\E id \in 0 .. (NumSlots - 1) : id \in regs.RAM_PACKET_CONFIG)
    => VC4_HDMI_RAM_PACKET_ENABLE \in regs.RAM_PACKET_CONFIG

\* a stream was opened, the encoder was disabled after that, and
\* trigger(START) has enabled the audio slot of a bank that is off
C35_SlotWithoutBank ==
    /\ audio.substream # 0
    /\ ~encoder_crtc
    /\ pc["alsa"] = "done"
    /\ call["alsa"].op = "trigger_start"
    /\ PacketId(HDMI_INFOFRAME_TYPE_AUDIO) \in regs.RAM_PACKET_CONFIG
    /\ VC4_HDMI_RAM_PACKET_ENABLE \notin regs.RAM_PACKET_CONFIG


\* vc4_chmap_ctl_get has returned values
CtlGetRead ==
    /\ pc["alsa"] = "done"
    /\ call["alsa"].op = "chmap_ctl_get"
    /\ call["alsa"].result = "ok"

\* C36: whenever vc4_chmap_ctl_get reads a channel map, audio.chmap_idx is
\* the unknown marker and no element of the table is read, or it is a valid
\* index of the table audio.chmap points at (0 for the stereo table, 0x00 to
\* 0x1f for the 8-channel table), whatever startups, prepares and receiver
\* changes came before.
C36_ChmapIdxValid ==
    CtlGetRead
    => \/ /\ audio.chmap_idx = HDMI_CODEC_CHMAP_IDX_UNKNOWN
          /\ trace["alsa"] = <<"map_unknown">>
       \/ /\ audio.chmap = "hdmi_codec_stereo_chmaps"
          /\ audio.chmap_idx = 0
          /\ trace["alsa"] = <<"map_read">>
       \/ /\ audio.chmap = "hdmi_codec_8ch_chmaps"
          /\ audio.chmap_idx \in 0 .. 31
          /\ trace["alsa"] = <<"map_read">>

\* the control is read with the stereo table selected and an index that an
\* 8-channel lookup left behind
C36_StaleIndex ==
    /\ CtlGetRead
    /\ audio.chmap = "hdmi_codec_stereo_chmaps"
    /\ audio.chmap_idx > 1
    /\ trace["alsa"] = <<"map_read_outside">>


\* context t is inside vc4_hdmi_write_infoframe, before the result of
\* vc4_hdmi_stop_packet is looked at
BeforeStopResult(t) ==
    \/ pc[t] = "wi_warn"
    \/ /\ pc[t] \in {"sp_read", "sp_write", "sp_poll"}
       /\ stack[t] # <<>>
       /\ Head(stack[t]) = "wi_stopped"

\* C37: when the slot does not go idle within the poll bound,
\* vc4_hdmi_write_infoframe writes no word of packet RAM and does not set
\* the slot's enable bit: up to the result of the poll nothing but the
\* slot's own enable bit changes (it is cleared), and from the timeout on
\* the write changes neither a register nor the RAM, so the slot is left
\* disabled with its previous contents and the other slots as they were.
C37_IdleTimeoutWritesNothing ==
    [][\A t \in Threads :
         /\ BeforeStopResult(t)
            => /\ ram' = ram
               /\ regs'.RAM_PACKET_CONFIG
                    \in {regs.RAM_PACKET_CONFIG,
                         regs.RAM_PACKET_CONFIG \ BIT(PacketId(loc[t].frame))}
         /\ (pc[t] = "wi_stopped" /\ loc[t].ret = "timeout")
            => /\ PacketId(loc[t].frame) \notin regs.RAM_PACKET_CONFIG
               /\ ram' = ram
               /\ regs' = regs
               /\ pc'[t] \notin {"wi_read", "wi_write", "wi_poll"}
      ]_vars

\* C37 happens: the audio infoframe write of a trigger(start) has given up
\* after the timeout, the audio slot holds an earlier frame and is disabled,
\* the AVI and SPD slots are enabled
C37_Witness ==
    /\ pc["alsa"] = "tr_start"
    /\ trace["alsa"][Len(trace["alsa"])] = "slot_idle_timeout"
    /\ \A w \in WrittenWords(HDMI_INFOFRAME_TYPE_AUDIO) :
         ram[w] = HDMI_INFOFRAME_TYPE_AUDIO
    /\ regs.RAM_PACKET_CONFIG
         = {VC4_HDMI_RAM_PACKET_ENABLE, PacketId(HDMI_INFOFRAME_TYPE_AVI),
            PacketId(HDMI_INFOFRAME_TYPE_SPD)}


\* this step is a whole call of vc4_hdmi_audio_startup
StartupStep ==
    /\ pc["alsa"] = "idle"
    /\ pc'["alsa"] = "done"
    /\ call'["alsa"].op = "startup"

\* C38: vc4_hdmi_audio_startup returns -ENODEV when the encoder has no CRTC
\* or the packet-RAM bank is not enabled, and a startup that fails leaves
\* the audio state as it was: it does not record the substream as the owner.
C38_FailedStartupChangesNothing ==
    [][StartupStep
       => /\ ((~encoder_crtc \/ BankOff) /\ call'["alsa"].result # "EINVAL")
             => call'["alsa"].result = "ENODEV"
          /\ call'["alsa"].result # "ok" => audio' = audio
      ]_vars

\* the part of C38 that the code keeps: -ENODEV without a CRTC or with the
\* bank off, and no change of the audio state by a startup that is refused
\* with -EINVAL
C38_StartupErrors ==
    [][StartupStep
       => /\ ((~encoder_crtc \/ BankOff) /\ call'["alsa"].result # "EINVAL")
             => call'["alsa"].result = "ENODEV"
          /\ call'["alsa"].result = "EINVAL" => audio' = audio
      ]_vars


\* vc4_hdmi_audio_shutdown has returned to the owner that called it
ShutdownDone == AlsaDone("shutdown") /\ call["alsa"].result = "ok"

\* C39: a shutdown by the owner clears audio.streaming, clears the audio
\* slot's enable bit, resets the MAI path and clears the owner, and a
\* startup that finds no owner passes the ownership check; a shutdown by a
\* substream that is not the owner changes no audio state and writes no
\* register.
C39_Shutdown ==
    /\ [](ShutdownDone
           => /\ ~audio.streaming
              /\ audio.substream = 0
              /\ PacketId(HDMI_INFOFRAME_TYPE_AUDIO) \notin regs.RAM_PACKET_CONFIG
              /\ Only(trace["alsa"],
                      {"slot_disable", "mai_reset", "mai_errorf", "mai_flush",
                       "owner_clear"})
                 = <<"slot_disable", "mai_reset", "mai_errorf", "mai_flush",
                     "owner_clear">>)
    /\ [][(StartupStep /\ audio.substream = 0)
          => call'["alsa"].result # "EINVAL"]_vars
    /\ [][(/\ pc["alsa"] = "idle"
           /\ call'["alsa"].op = "shutdown"
           /\ call'["alsa"].arg # audio.substream)
          => /\ pc'["alsa"] = "done"
             /\ call'["alsa"].result = "ignored"
             /\ audio' = audio
             /\ regs' = regs
             /\ ram' = ram
             /\ trace'["alsa"] = <<>>]_vars

\* C39 happens: the owner of a running stream has shut it down on an
\* enabled encoder, and the audio slot did not go idle in time
C39_Witness ==
    /\ ShutdownDone
    /\ Has(trace["alsa"], "slot_idle_timeout")
    /\ PacketId(HDMI_INFOFRAME_TYPE_AVI) \in regs.RAM_PACKET_CONFIG
    /\ \A w \in WrittenWords(HDMI_INFOFRAME_TYPE_AUDIO) :
         ram[w] = HDMI_INFOFRAME_TYPE_AUDIO


\* the report the interrupt recorded as e has to lead to
CecReportOf(e) ==
    IF e[1] = "rx" THEN <<"cec_received_msg", e[2]>>
    ELSE IF e[2] THEN <<"cec_transmit_done", "OK", 0>>
    ELSE <<"cec_transmit_done", "NACK", 2>>

\* no CEC interrupt is raised or waits for the thread, the thread is asleep
CecQuiet == ~cec.pending /\ ~cec.runthread /\ cec.thr = "asleep"

\* C40: every transmit-completion interrupt leads to exactly one
\* cec_transmit_done with the TX status read at that interrupt, and every
\* receive interrupt to exactly one cec_received_msg with the message read
\* at that interrupt, also when an interrupt fires before the thread has
\* handled the one before: once all interrupts are handled, the reports
\* are those of the interrupts, one each, in their order.
C40_EveryIrqReported ==
    CecQuiet
    => cec.reports = [i \in DOMAIN cec.events |-> CecReportOf(cec.events[i])]

\* the part of C40 that the code keeps: an interrupt handled by the thread
\* before the next one fires is reported once, with what was read at it
C40_OneAtATime ==
    (CecQuiet /\ Len(cec.events) = 1)
    => cec.reports = <<CecReportOf(cec.events[1])>>

\* two interrupts, a transmit completion and a reception, were handled
\* before the thread ran, and the thread has reported the second one only
C40_LostTransmitDone ==
    /\ CecQuiet
    /\ Len(cec.events) = 2
    /\ cec.events[1][1] = "tx"
    /\ cec.events[2][1] = "rx"
    /\ cec.reports = <<CecReportOf(cec.events[2])>>

=============================================================================
